---- MODULE Spec2Model ----
(***************************************************************************)
(* Bot Hoster: the session/slot registry (session_manager.py), the process *)
(* supervisor (code_executor.py) and the handlers of bot.py that drive     *)
(* them, as a state machine.  One event loop runs the handlers: a step of  *)
(* the model is the code a coroutine runs between two awaits.              *)
(***************************************************************************)
EXTENDS Integers, Sequences, FiniteSets, Bags, TLC

\* ------------------------------------------------------------ constants
\* config.py: MAX_BOTS_PER_USER (default "2")
MAX_BOTS_PER_USER == 2
\* session_manager.py stop_bot(timeout=5) and the fixed wait(timeout=2)
GRACE_PERIOD == 5
KILL_WAIT == 2

\* Python's None where an Optional[int] slot is expected (falsy, like 0)
None == 0

\* ------------------------------------------------------------ bounds
Users == {1, 2}
\* the user whose handlers of bot.py are followed await by await
Clients == {1}
Slots == 1..MAX_BOTS_PER_USER
Locations == {"channel", "dm", "develop"}
\* processes ever spawned: by the handlers of bot.py, by direct calls
MaxSpawns == 2
MaxProcs == 3
\* coroutines suspended at one time
MaxTasks == 2
\* wall clock, in units of which session_timeout is SessionTimeout
MaxTime == 1
SessionTimeout == 0
\* consecutive start_upload_session calls that are recorded
MaxBurst == 3

Pids == 1..MaxProcs

VARIABLES
    running_bots,   \* {user_id: {slot: {process}}}
    user_projects,  \* {user_id: {upload_location, slot, project_path}}
    user_sessions,  \* {user_id: {last_activity, upload_location, state, slot}}
    alive,          \* pids of the child processes that have not exited
    spawned,        \* number of child processes spawned so far
    now,            \* datetime.now()
    tasks,          \* the suspended coroutines of bot.py, a bag
    views,          \* <<user_id, slot>> of the MainFileView messages sent; the
                    \* slots start_upload_session has handed to its callers
    last,           \* the last SessionManager call and what it returned
    start,          \* one call of CodeExecutor.start_process
    stopper,        \* one process being stopped, step by step
    scan            \* one upload going through the extraction or the security scan

vars == <<running_bots, user_projects, user_sessions, alive, spawned, now,
          tasks, views, last, start, stopper, scan>>

\* the registry of SessionManager and the child processes
regVars == <<running_bots, user_projects, user_sessions, alive, spawned>>
\* what the handlers of bot.py leave alone
offBot == <<now, last, start, stopper, scan>>
\* what the calls of SessionManager leave alone
offApi == <<tasks, start, stopper, scan>>

\* ------------------------------------------------------------ dicts
DictPut(d, k, v) == [x \in (DOMAIN d) \cup {k} |-> IF x = k THEN v ELSE d[x]]
DictDel(d, k) == [x \in (DOMAIN d) \ {k} |-> d[x]]
EmptyDict == << >>

\* config.get_user_project_dir(user_id, slot): root/<user>/bot_<slot>
get_user_project_dir(u, s) == <<u, IF s < 1 THEN 1 ELSE s>>

\* ------------------------------------------------------------ SessionManager
\* the keys of running_bots[user_id], {} when the user has no entry
SlotsOf(rb, u) == IF u \in DOMAIN rb THEN DOMAIN rb[u] ELSE {}

\* the reserved slot alone, without the keys of running_bots
ReservedOnly(rb, up, u) == IF u \in DOMAIN up THEN {up[u].slot} ELSE {}

occupied(rb, up, u) ==
    SlotsOf(rb, u) \cup (IF u \in DOMAIN up THEN {up[u].slot} ELSE {})

\* the highest slot not occupied
LastFree(range, occ) ==
    IF \E s \in range : s \notin occ
    THEN CHOOSE s \in range : s \notin occ /\ \A k \in range : k \notin occ => k <= s
    ELSE None

FirstFree(range, occ) ==
    IF \E s \in range : s \notin occ
    THEN CHOOSE s \in range : s \notin occ /\ \A r \in range : r \notin occ => s <= r
    ELSE None

\* a range one slot too long
OneSlotMore(rb, up, u) == FirstFree(1..(MAX_BOTS_PER_USER + 1), occupied(rb, up, u))

\* for slot in range(1, MAX_BOTS_PER_USER + 1): the first one not occupied
_get_available_slot(rb, up, u) == FirstFree(1..MAX_BOTS_PER_USER, occupied(rb, up, u))

\* a start that writes user_projects and leaves user_sessions as it was
StartProjectOnly(rb, up, us, t, u, loc) ==
    LET slot == FirstFree(1..MAX_BOTS_PER_USER, occupied(rb, up, u)) IN
    IF slot = None
    THEN [ok |-> FALSE, slot |-> None, up |-> up, us |-> us]
    ELSE [ok |-> TRUE, slot |-> slot,
          up |-> DictPut(up, u, [upload_location |-> loc, slot |-> slot,
                                 project_path |-> <<u, slot>>]),
          us |-> us]

\* start_upload_session: <<success, slot, user_projects', user_sessions'>>
start_upload_session(rb, up, us, t, u, loc) ==
    LET slot == _get_available_slot(rb, up, u) IN
    IF slot = None
    THEN [ok |-> FALSE, slot |-> None, up |-> up, us |-> us]
    ELSE [ok |-> TRUE, slot |-> slot,
          up |-> DictPut(up, u, [upload_location |-> loc, slot |-> slot,
                                 project_path |-> get_user_project_dir(u, slot)]),
          us |-> DictPut(us, u, [last_activity |-> t, upload_location |-> loc,
                                 state |-> "uploading", slot |-> slot])]

\* an end of session that forgets user_sessions
EndKeepsSession(up, us, u) == [ok |-> TRUE, up |-> DictDel(up, u), us |-> us]

\* end_upload_session: deletes both entries, returns True
end_upload_session(up, us, u) == [ok |-> TRUE, up |-> DictDel(up, u), us |-> DictDel(us, u)]

is_user_uploading(up, u) == u \in DOMAIN up

\* register_running_bot: writes running_bots[user_id][slot] unconditionally
register_running_bot(rb, u, s, pid) ==
    LET mine == IF u \in DOMAIN rb THEN rb[u] ELSE EmptyDict IN
    DictPut(rb, u, DictPut(mine, s, [process |-> pid]))

\* process.poll() is None
Polls(al, pid) == pid \in al

\* an answer taken from the registry alone, without polling the process
RegisteredMeansRunning(rb, al, u, s) ==
    IF u \notin DOMAIN rb THEN FALSE
    ELSE IF s = None THEN DOMAIN rb[u] # {}
    ELSE s \in DOMAIN rb[u]

is_bot_running(rb, al, u, s) ==
    IF u \notin DOMAIN rb THEN FALSE
    ELSE IF s = None THEN \E k \in DOMAIN rb[u] : Polls(al, rb[u][k].process)
    ELSE IF s \notin DOMAIN rb[u] THEN FALSE
    ELSE Polls(al, rb[u][s].process)

get_running_bots_count_for_user(rb, al, u) ==
    IF u \notin DOMAIN rb THEN 0
    ELSE Cardinality({k \in DOMAIN rb[u] : Polls(al, rb[u][k].process)})

\* get_running_bots_count: counts the live entries and deletes the others,
\* then the users left without an entry
LiveEntries(rb, al, u) == {k \in DOMAIN rb[u] : Polls(al, rb[u][k].process)}

get_running_bots_count(rb, al) ==
    LET keep == {u \in DOMAIN rb : LiveEntries(rb, al, u) # {}} IN
    [count |-> Cardinality(UNION {{<<u, k>> : k \in LiveEntries(rb, al, u)} :
                                    u \in DOMAIN rb}),
     rb |-> [u \in keep |-> [k \in LiveEntries(rb, al, u) |-> rb[u][k]]]]

\* cleanup_expired_sessions: the sessions whose age exceeds session_timeout
Expired(us, t) == {u \in DOMAIN us : (t - us[u].last_activity) > SessionTimeout}

\* the sessions and the bots of the expired users dropped together
DropExpiredBots(rb, up, us, t) ==
    [cleaned |-> Cardinality(Expired(us, t)),
     rb |-> [u \in (DOMAIN rb) \ Expired(us, t) |-> rb[u]],
     us |-> [u \in (DOMAIN us) \ Expired(us, t) |-> us[u]],
     up |-> [u \in (DOMAIN up) \ Expired(us, t) |-> up[u]]]

cleanup_expired_sessions(rb, up, us, t) ==
    [cleaned |-> Cardinality(Expired(us, t)),
     rb |-> rb,
     us |-> [u \in (DOMAIN us) \ Expired(us, t) |-> us[u]],
     up |-> [u \in (DOMAIN up) \ Expired(us, t) |-> up[u]]]

\* What terminate()/wait(timeout)/kill()/wait(2) did to one live process:
\*   graceful      terminate(), exited within the grace period
\*   killed        TimeoutExpired, kill(), exited within 2 s
\*   kill_timeout  TimeoutExpired, kill(), still there after 2 s
\*   kill_failed   TimeoutExpired, kill() raised
\*   error_killed  terminate() or wait() raised, kill() sent
\*   error_failed  terminate() or wait() raised, kill() raised too
StopOutcomes == {"graceful", "killed", "kill_timeout", "kill_failed",
                 "error_killed", "error_failed"}
Dies(o) == o \in {"graceful", "killed", "error_killed"}

\* the slots a stop_bot call goes through: `[slot] if slot else list(keys)`
StopSlots(rb, u, slot) ==
    IF u \notin DOMAIN rb THEN {}
    ELSE (IF slot # None THEN {slot} ELSE DOMAIN rb[u]) \cap DOMAIN rb[u]

\* the live processes a stop_bot call signals
Targets(rb, al, u, slot) ==
    {rb[u][k].process : k \in StopSlots(rb, u, slot)} \cap al

\* every entry kept although its process outlived the call
KeepSurvivors(rb, al, u, slot, o) ==
    IF u \notin DOMAIN rb
    THEN [ok |-> FALSE, rb |-> rb, al |-> al, pids |-> {}]
    ELSE LET hit == StopSlots(rb, u, slot)
             pids == {rb[u][k].process : k \in hit}
             al2 == al \ {p \in DOMAIN o : Dies(o[p])}
             rest == [k \in {k \in DOMAIN rb[u] : k \notin hit \/ rb[u][k].process \in al2}
                        |-> rb[u][k]]
         IN [ok |-> TRUE,
             rb |-> IF DOMAIN rest = {} THEN DictDel(rb, u) ELSE DictPut(rb, u, rest),
             al |-> al2, pids |-> pids]

\* a stop that drops every entry of the user, whatever slot was named
DropsUser(rb, al, u, slot, o) ==
    IF u \notin DOMAIN rb
    THEN [ok |-> FALSE, rb |-> rb, al |-> al, pids |-> {}]
    ELSE [ok |-> TRUE, rb |-> DictDel(rb, u),
          al |-> al \ {p \in DOMAIN o : Dies(o[p])},
          pids |-> {rb[u][k].process : k \in StopSlots(rb, u, slot)}]

\* stop_bot: o[pid] is what became of each live process it signalled.  Every
\* targeted entry is deleted whatever became of its process, then the user's
\* dict when it is left empty.
stop_bot(rb, al, u, slot, o) ==
    IF u \notin DOMAIN rb
    THEN [ok |-> FALSE, rb |-> rb, al |-> al, pids |-> {}]
    ELSE LET hit == StopSlots(rb, u, slot)
             rest == [k \in (DOMAIN rb[u]) \ hit |-> rb[u][k]]
         IN [ok |-> TRUE,
             rb |-> IF DOMAIN rest = {} THEN DictDel(rb, u) ELSE DictPut(rb, u, rest),
             al |-> al \ {p \in DOMAIN o : Dies(o[p])},
             pids |-> {rb[u][k].process : k \in hit}]

\* ------------------------------------------------------------ CodeExecutor
\* A script path, read from working_dir: its directory components, and what
\* the file system holds at its end.  A component is a subdirectory ("sub"),
\* the parent (".."), the name of the next directory towards working_dir
\* ("spine"), a symlink to a sibling directory of working_dir ("link_out") or
\* a symlink to working_dir itself ("link_in").
Components == {"sub", "..", "spine", "link_out", "link_in"}
MaxPathLen == 2

\* Path.resolve(): the place a component leads to.  A place is <<up, down>>:
\* `down` levels below the directory `up` levels above working_dir.
Step(at, c) ==
    CASE c = "sub" -> <<at[1], at[2] + 1>>
      [] c = "spine" -> IF at[1] > 0 /\ at[2] = 0 THEN <<at[1] - 1, 0>>
                        ELSE <<at[1], at[2] + 1>>
      [] c = ".." -> IF at[2] > 0 THEN <<at[1], at[2] - 1>> ELSE <<at[1] + 1, 0>>
      [] c = "link_out" -> <<1, 1>>
      [] c = "link_in" -> <<0, 0>>

RECURSIVE ResolveFrom(_, _)
ResolveFrom(at, segs) ==
    IF segs = << >> THEN at ELSE ResolveFrom(Step(at, Head(segs)), Tail(segs))

resolve(segs) == ResolveFrom(<<0, 0>>, segs)

\* a check of the path's text alone: no parent component
NoDotDot(segs) == \A i \in DOMAIN segs : segs[i] # ".."

\* script_path.resolve().relative_to(working_dir.resolve()) does not raise
relative_to(segs) == resolve(segs)[1] = 0

RECURSIVE SeqsUpTo(_, _)
SeqsUpTo(S, n) ==
    IF n = 0 THEN {<< >>}
    ELSE LET shorter == SeqsUpTo(S, n - 1) IN
         shorter \cup {Append(q, c) : q \in shorter, c \in S}

StartInputs ==
    {[segs |-> q, exists |-> e, is_file |-> f, popen_ok |-> k] :
        q \in SeqsUpTo(Components, MaxPathLen),
        e \in BOOLEAN, f \in BOOLEAN, k \in BOOLEAN}

\* start_process: "spawned" when Popen ran and returned a process
start_process(p) ==
    IF ~p.exists THEN "not_found"
    ELSE IF ~p.is_file THEN "not_a_file"
    ELSE IF ~relative_to(p.segs) THEN "outside"
    ELSE IF ~p.popen_ok THEN "error"
    ELSE "spawned"

\* the script in working_dir itself: the inputs the handlers of bot.py are
\* followed with
StartFlags == {p \in StartInputs : p.segs = << >>}

\* MainFileView.run_bot: main_file.exists() and the relative_to check
run_bot_precheck(p) == p.exists /\ relative_to(p.segs)



\* ------------------------------------------------------------ coroutines
\* a variable the specification at hand does not use
Off == [pc |-> "off"]

\* a coroutine suspended at an await: where, for which user and slot, the
\* attempts of the auto-fix loop, the process it monitors
Task(pc, u, s) == [pc |-> pc, u |-> u, s |-> s, n |-> 0, pid |-> None]

\* the slots of the views a user can click
HeldSlots(u) == {v[2] : v \in {w \in views : w[1] = u}}

Suspended == BagToSet(tasks)
HasRoom == BagCardinality(tasks) < MaxTasks
\* a handler runs to its first await
Spawn(t) == tasks (+) SetToBag({t})
\* a coroutine runs from one await to the next
Resume(t, t2) == (tasks (-) SetToBag({t})) (+) SetToBag({t2})
\* a coroutine runs to its end
Return(t) == tasks (-) SetToBag({t})

LastNone == [op |-> "none", u |-> 0, s |-> 0, ok |-> FALSE, pids |-> {},
             bfree |-> {}, bres |-> << >>]

InitRegistry ==
    /\ running_bots = EmptyDict
    /\ user_projects = EmptyDict
    /\ user_sessions = EmptyDict
    /\ alive = {}
    /\ spawned = 0
    /\ now = 0
    /\ views = {}
    /\ last = LastNone

Init ==
    /\ InitRegistry
    /\ tasks = EmptyBag
    /\ start = Off
    /\ stopper = Off
    /\ scan = Off

\* UploadMethodView.upload_here
UploadHere(u) ==
    LET r == start_upload_session(running_bots, user_projects, user_sessions, now,
                                  u, "channel") IN
    /\ user_projects' = r.up
    /\ user_sessions' = r.us
    /\ UNCHANGED <<running_bots, alive, spawned, tasks, views, offBot>>

\* UploadMethodView.upload_dm; the DM may be refused (discord.Forbidden)
UploadDm(u, forbidden) ==
    LET r == start_upload_session(running_bots, user_projects, user_sessions, now,
                                  u, "dm") IN
    /\ user_projects' = r.up
    /\ user_sessions' = r.us
    /\ IF r.ok /\ forbidden
       THEN HasRoom /\ tasks' = Spawn(Task("closing", u, None))
       ELSE tasks' = tasks
    /\ UNCHANGED <<running_bots, alive, spawned, views, offBot>>

EndSession(t) ==
    LET r == end_upload_session(user_projects, user_sessions, t.u) IN
    /\ user_projects' = r.up
    /\ user_sessions' = r.us

\* a handler that has reported its outcome and has only end_upload_session
\* left before it returns: upload_dm after Forbidden, process_zip_upload after
\* a failure, show_main_file_selector after channel.send, develop_command
\* after a failed generation
Closing(t) ==
    /\ t.pc = "closing"
    /\ EndSession(t)
    /\ tasks' = Return(t)
    /\ UNCHANGED <<running_bots, alive, spawned, views, offBot>>

\* on_message up to the await of the download in process_zip_upload
OnMessage(u) ==
    /\ is_user_uploading(user_projects, u)
    /\ HasRoom
    /\ tasks' = Spawn(Task("zip", u, user_projects[u].slot))
    /\ UNCHANGED <<regVars, views, offBot>>

\* process_zip_upload: the download, the extraction or a later step fails
ZipFail(t) ==
    /\ t.pc = "zip"
    /\ tasks' = Resume(t, Task("closing", t.u, None))
    /\ UNCHANGED <<regVars, views, offBot>>

\* process_zip_upload: the scan found a malicious file
ZipMalicious(t) ==
    /\ t.pc = "zip"
    /\ EndSession(t)
    /\ tasks' = Return(t)
    /\ UNCHANGED <<running_bots, alive, spawned, views, offBot>>

\* show_main_file_selector up to the await of channel.send
ShowSelector(t, has_py, send_ok) ==
    /\ t.pc = "zip"
    /\ tasks' = IF send_ok THEN Resume(t, Task("closing", t.u, None)) ELSE Return(t)
    /\ views' = IF has_py /\ send_ok THEN views \cup {<<t.u, t.s>>} ELSE views
    /\ UNCHANGED <<regVars, offBot>>

\* refresh_presence up to its first await: get_running_bots_count()
Reaped(rb, al) == get_running_bots_count(rb, al).rb

\* MainFileView.run_bot up to the await of interaction.response.send_message
RunClick(u, s, p) ==
    /\ <<u, s>> \in views
    /\ get_running_bots_count_for_user(running_bots, alive, u) < MAX_BOTS_PER_USER
    /\ ~is_bot_running(running_bots, alive, u, s)
    /\ run_bot_precheck(p)
    /\ HasRoom
    /\ tasks' = Spawn(Task("run_start", u, s))
    /\ UNCHANGED <<regVars, views, offBot>>

\* start_process, then register_running_bot and refresh_presence
StartAndRegister(t, p) ==
    IF start_process(p) = "spawned"
    THEN /\ spawned < MaxSpawns
         /\ spawned' = spawned + 1
         /\ alive' = alive \cup {spawned + 1}
         /\ running_bots' = Reaped(register_running_bot(running_bots, t.u, t.s,
                                                        spawned + 1), alive')
    ELSE UNCHANGED <<running_bots, alive, spawned>>

\* MainFileView.run_bot from start_process on
RunStart(t, p) ==
    /\ t.pc = "run_start"
    /\ StartAndRegister(t, p)
    /\ tasks' = Return(t)
    /\ UNCHANGED <<user_projects, user_sessions, views, offBot>>

\* develop_command up to the await of the file generation
Develop(u) ==
    LET r == start_upload_session(running_bots, user_projects, user_sessions, now,
                                  u, "develop") IN
    /\ get_running_bots_count_for_user(running_bots, alive, u) < MAX_BOTS_PER_USER
    /\ user_projects' = r.up
    /\ user_sessions' = r.us
    /\ IF r.ok
       THEN HasRoom /\ tasks' = Spawn(Task("dev_gen", u, r.slot))
       ELSE tasks' = tasks
    /\ UNCHANGED <<running_bots, alive, spawned, views, offBot>>

\* develop_command: the generation failed
DevGenFail(t) ==
    /\ t.pc = "dev_gen"
    /\ tasks' = Resume(t, Task("closing", t.u, None))
    /\ UNCHANGED <<regVars, views, offBot>>

\* develop_command: the files are written and installed, the session ended
DevEndSession(t) ==
    /\ t.pc = "dev_gen"
    /\ EndSession(t)
    /\ tasks' = Resume(t, [t EXCEPT !.pc = "dev_run"])
    /\ UNCHANGED <<running_bots, alive, spawned, views, offBot>>

\* run_generated_bot from start_process to the await of the monitor, or to
\* its return when the start failed
DevRun(t, p) ==
    /\ t.pc = "dev_run"
    /\ StartAndRegister(t, p)
    /\ tasks' = Resume(t, [t EXCEPT !.pc = "dev_monitor",
                                     !.pid = IF start_process(p) = "spawned"
                                             THEN spawned + 1 ELSE None])
    /\ UNCHANGED <<user_projects, user_sessions, views, offBot>>

\* monitor_console_output returns once the process has exited; then
\* develop_command calls refresh_presence, and its auto-fix loop runs the bot
\* again while attempts < 2
DevMonitorDone(t, again) ==
    /\ t.pc = "dev_monitor"
    /\ t.pid = None \/ ~Polls(alive, t.pid)
    /\ running_bots' = Reaped(running_bots, alive)
    /\ tasks' = IF again /\ t.n + 1 < 2
                THEN Resume(t, [t EXCEPT !.pc = "dev_run", !.n = @ + 1, !.pid = None])
                ELSE Return(t)
    /\ UNCHANGED <<user_projects, user_sessions, alive, spawned, views, offBot>>

\* a child process exits by itself
ProcessExit(pid) ==
    /\ pid \in alive
    /\ alive' = alive \ {pid}
    /\ UNCHANGED <<running_bots, user_projects, user_sessions, spawned, now, last,
                   tasks, views, start, stopper, scan>>

\* ConfirmClearView.confirm_delete: stop_bot(user_id, None), then refresh_presence
ConfirmDelete(u, o) ==
    LET r == stop_bot(running_bots, alive, u, None, o) IN
    /\ is_bot_running(running_bots, alive, u, None)
    /\ alive' = r.al
    /\ running_bots' = IF r.ok THEN Reaped(r.rb, r.al) ELSE r.rb
    /\ UNCHANGED <<user_projects, user_sessions, spawned, tasks, views, offBot>>

\* BotControlView.stop_bot: the Stop button, then refresh_presence
StopButton(u, s, o) ==
    LET r == stop_bot(running_bots, alive, u, s, o) IN
    /\ is_bot_running(running_bots, alive, u, s)
    /\ alive' = r.al
    /\ running_bots' = IF r.ok THEN Reaped(r.rb, r.al) ELSE r.rb
    /\ UNCHANGED <<user_projects, user_sessions, spawned, tasks, views, offBot>>

\* refresh_presence from the presence loop, status_command, StatusServer
RefreshPresence ==
    /\ running_bots' = Reaped(running_bots, alive)
    /\ UNCHANGED <<user_projects, user_sessions, alive, spawned, tasks, views, offBot>>

Next ==
    \/ \E u \in Clients : UploadHere(u)
    \/ \E u \in Clients, forbidden \in BOOLEAN : UploadDm(u, forbidden)
    \/ \E t \in Suspended : Closing(t)
    \/ \E u \in Clients : OnMessage(u)
    \/ \E t \in Suspended : ZipFail(t)
    \/ \E t \in Suspended : ZipMalicious(t)
    \/ \E t \in Suspended, has_py \in BOOLEAN, send_ok \in BOOLEAN : ShowSelector(t, has_py, send_ok)
    \/ \E u \in Clients : \E s \in HeldSlots(u), p \in StartFlags : RunClick(u, s, p)
    \/ \E t \in Suspended, p \in StartFlags : RunStart(t, p)
    \/ \E u \in Clients : Develop(u)
    \/ \E t \in Suspended : DevGenFail(t)
    \/ \E t \in Suspended : DevEndSession(t)
    \/ \E t \in Suspended, p \in StartFlags : DevRun(t, p)
    \/ \E t \in Suspended, again \in BOOLEAN : DevMonitorDone(t, again)
    \/ \E pid \in Pids : ProcessExit(pid)
    \/ \E u \in Clients : \E o \in [Targets(running_bots, alive, u, None) -> StopOutcomes] :
          ConfirmDelete(u, o)
    \/ \E u \in Clients : \E s \in HeldSlots(u) :
          \E o \in [Targets(running_bots, alive, u, s) -> StopOutcomes] : StopButton(u, s, o)
    \/ RefreshPresence

Spec == Init /\ [][Next]_vars

\* a suspended coroutine of the bot is resumed: the event loop runs every
\* coroutine whose await has completed
ClosingStep == \E t \in Suspended : Closing(t)

ZipStep ==
    \E t \in Suspended :
       \/ ZipFail(t)
       \/ ZipMalicious(t)
       \/ \E has_py \in BOOLEAN, send_ok \in BOOLEAN : ShowSelector(t, has_py, send_ok)

RunStep == \E t \in Suspended, p \in StartFlags : RunStart(t, p)

DevStep ==
    \E t \in Suspended :
       \/ DevGenFail(t)
       \/ DevEndSession(t)
       \/ \E p \in StartFlags : DevRun(t, p)
       \/ \E again \in BOOLEAN : DevMonitorDone(t, again)

\* the handlers of bot.py with the event loop's scheduling: what the users
\* and the child processes do is not forced
SpecFair ==
    /\ Spec
    /\ WF_vars(ClosingStep) /\ WF_vars(ZipStep) /\ WF_vars(RunStep) /\ WF_vars(DevStep)

\* ------------------------------------------------------------ SessionManager alone
\* The methods of SessionManager called in any order.  register_running_bot
\* is given a slot that start_upload_session returned for the user, as its
\* callers in bot.py do.
Did(op, u, s, ok) == [LastNone EXCEPT !.op = op, !.u = u, !.s = s, !.ok = ok]

FreeSlots(rb, up, u) == Slots \ occupied(rb, up, u)

\* the record of a start_upload_session call: the run of consecutive calls for
\* one user it belongs to, the slots free when the run began, the slots granted
DidStart(u, r) ==
    LET cont == last.op = "start_upload_session" /\ last.u = u
                /\ Len(last.bres) < MaxBurst IN
    [op |-> "start_upload_session", u |-> u, s |-> r.slot, ok |-> r.ok, pids |-> {},
     bfree |-> IF cont THEN last.bfree ELSE FreeSlots(running_bots, user_projects, u),
     bres |-> (IF cont THEN last.bres ELSE << >>) \o <<r.slot>>]

CallStart(u, loc) ==
    LET r == start_upload_session(running_bots, user_projects, user_sessions, now,
                                  u, loc) IN
    /\ user_projects' = r.up
    /\ user_sessions' = r.us
    /\ views' = IF r.ok THEN views \cup {<<u, r.slot>>} ELSE views
    /\ last' = DidStart(u, r)
    /\ UNCHANGED <<running_bots, alive, spawned, now, offApi>>

CallEnd(u) ==
    LET r == end_upload_session(user_projects, user_sessions, u) IN
    /\ user_projects' = r.up
    /\ user_sessions' = r.us
    /\ last' = Did("end_upload_session", u, None, r.ok)
    /\ UNCHANGED <<running_bots, alive, spawned, now, views, offApi>>

CallRegister(u, s, bound) ==
    /\ <<u, s>> \in views
    /\ spawned < bound
    /\ spawned' = spawned + 1
    /\ alive' = alive \cup {spawned + 1}
    /\ running_bots' = register_running_bot(running_bots, u, s, spawned + 1)
    /\ last' = LastNone
    /\ UNCHANGED <<user_projects, user_sessions, now, views, offApi>>

CallStop(u, slot, o) ==
    LET r == stop_bot(running_bots, alive, u, slot, o) IN
    /\ running_bots' = r.rb
    /\ alive' = r.al
    /\ last' = [Did("stop_bot", u, slot, r.ok) EXCEPT !.pids = r.pids]
    /\ UNCHANGED <<user_projects, user_sessions, spawned, now, views, offApi>>

CallCount ==
    /\ running_bots' = get_running_bots_count(running_bots, alive).rb
    /\ last' = LastNone
    /\ UNCHANGED <<user_projects, user_sessions, alive, spawned, now, views, offApi>>

\* get_running_bots_count_for_user: sums over the user's entries, writes
\* nothing
CallCountFor(u) ==
    /\ get_running_bots_count_for_user(running_bots, alive, u) \in 0..MAX_BOTS_PER_USER
    /\ last' = LastNone
    /\ UNCHANGED <<running_bots, user_projects, user_sessions, alive, spawned, now, views,
                   offApi>>

\* the processes registered for the users whose session has expired
ExpiredBots ==
    UNION {{running_bots[u][k].process : k \in DOMAIN running_bots[u]} :
             u \in Expired(user_sessions, now) \cap DOMAIN running_bots}

CallCleanup ==
    LET r == cleanup_expired_sessions(running_bots, user_projects, user_sessions, now) IN
    /\ running_bots' = r.rb
    /\ user_projects' = r.up
    /\ user_sessions' = r.us
    /\ last' = [Did("cleanup_expired_sessions", None, None, r.cleaned > 0)
                  EXCEPT !.pids = ExpiredBots]
    /\ UNCHANGED <<alive, spawned, now, views, offApi>>

\* update_activity
CallUpdate(u) ==
    /\ user_sessions' = IF u \in DOMAIN user_sessions
                        THEN [user_sessions EXCEPT ![u].last_activity = now]
                        ELSE user_sessions
    /\ last' = LastNone
    /\ UNCHANGED <<running_bots, user_projects, alive, spawned, now, views, offApi>>

\* datetime.now() advances
Tick ==
    /\ now < MaxTime
    /\ now' = now + 1
    /\ UNCHANGED <<running_bots, user_projects, user_sessions, alive, spawned, last,
                   views, offApi>>

\* the calls made for the users U from the places L, spawning at most
\* `bound` processes
Calls(U, L, bound) ==
    \/ \E u \in U, loc \in L : CallStart(u, loc)
    \/ \E u \in U : CallEnd(u)
    \/ \E u \in U : \E s \in HeldSlots(u) : CallRegister(u, s, bound)
    \/ \E u \in U : \E slot \in HeldSlots(u) \cup {None} :
          \E o \in [Targets(running_bots, alive, u, slot) -> StopOutcomes] : CallStop(u, slot, o)
    \/ CallCount
    \/ \E u \in U : CallCountFor(u)
    \/ CallCleanup
    \/ \E u \in U : CallUpdate(u)
    \/ \E pid \in Pids : ProcessExit(pid)
    \/ Tick

\* one user, up to MaxProcs processes
SpecApi == Init /\ [][Calls(Clients, Locations, MaxProcs)]_vars

\* two users, up to MaxSpawns processes
SpecUsers == Init /\ [][Calls(Users, {"channel"}, MaxSpawns)]_vars

\* ------------------------------------------------------------ start_process alone
\* One call of CodeExecutor.start_process on any script path.
InitStart ==
    /\ InitRegistry
    /\ tasks = EmptyBag
    /\ start \in {[pc |-> "called", p |-> p, result |-> "none"] : p \in StartInputs}
    /\ stopper = Off
    /\ scan = Off

\* start_process runs; a process it returns is a new child
StartProcess ==
    LET r == start_process(start.p) IN
    /\ start.pc = "called"
    /\ start' = [start EXCEPT !.pc = "returned", !.result = r]
    /\ spawned' = IF r = "spawned" THEN spawned + 1 ELSE spawned
    /\ alive' = IF r = "spawned" THEN alive \cup {spawned + 1} ELSE alive
    /\ UNCHANGED <<running_bots, user_projects, user_sessions, now, last, tasks, views,
                   stopper, scan>>

SpecStart == InitStart /\ [][StartProcess]_vars

\* ------------------------------------------------------------ the security scan
\* gemini_client.GEMINI_MODELS and SecurityChecker.models, by position
NumGeminiModels == 4
NumCheckerModels == 5
\* config.py: SECURITY_BATCH_SIZE, read from the environment (default "5");
\* the batches of the model are shorter
SECURITY_BATCH_SIZE == 2
\* scan_files_with_gemini: batch_size = 3
GEMINI_BATCH_SIZE == 3

\* files of one upload, files given to a SecurityChecker
MaxFiles == 4
MaxCheckerFiles == 3

\* an extracted path: a readable file with a code extension, a file with
\* another extension, a code path that is not a regular file, a code file
\* whose read raises
FileKinds == {"code", "noncode", "missing", "unreadable"}
Types == {"malicious", "normal", "other", "absent"}

\* what one model answers to one request: an HTTP status, a timeout or client
\* error, a 200 whose body has no candidate text, a 200 with empty text, a
\* 200 with text that is a JSON object (carrying a "type" or not) or is not
Reply(k, c, j, t, w) == [kind |-> k, code |-> c, json |-> j, type |-> t, keyword |-> w]
Failures ==
    {Reply("status", c, FALSE, "absent", FALSE) : c \in {404, 429, 500}}
    \cup {Reply(k, 200, FALSE, "absent", FALSE) : k \in {"timeout", "bad_envelope", "empty"}}
Texts ==
    {Reply("text", 200, TRUE, t, t = "malicious") : t \in Types}
    \cup {Reply("text", 200, FALSE, "absent", w) : w \in BOOLEAN}
Replies == Failures \cup Texts

\* 'malicious' in content.lower()
Heuristic(r) == IF r.keyword THEN "malicious" ELSE "normal"

\* call_gemini on the reply of model m: the text is returned, the next model
\* is tried, or the models are exhausted
call_gemini(r, m) ==
    IF r.kind = "text" THEN "success"
    ELSE IF m < NumGeminiModels THEN "next" ELSE "failed"

\* a classifier that flags the file when no model answered
FailClosed(success, r) ==
    IF ~success THEN "malicious"
    ELSE IF r.json THEN (IF r.type = "absent" THEN "normal" ELSE r.type)
    ELSE Heuristic(r)

\* scan_code_for_security once call_gemini has returned
scan_code_for_security(success, r) ==
    IF ~success THEN "normal"
    ELSE IF r.json THEN (IF r.type = "absent" THEN "normal" ELSE r.type)
    ELSE Heuristic(r)

\* SecurityChecker.check_file on the reply of one model
check_file(r) ==
    IF r.kind = "text"
    THEN IF r.json THEN (IF r.type = "absent" THEN "normal" ELSE r.type)
         ELSE Heuristic(r)
    ELSE "normal"

\* the entries of scan_results for the paths that have none yet
NotACodeFile(files, res) ==
    [f \in 1..Len(files) |-> IF f \in DOMAIN res THEN res[f] ELSE "normal"]

\* a filter that lets every path through
EveryPath(k) == TRUE

\* any(f.endswith(ext) for ext in code_extensions)
IsCodeFile(k) == k # "noncode"

\* full_path.is_file()
IsFile(k) == k # "missing"

Range(s) == {s[x] : x \in DOMAIN s}
\* code_files, as indices
CodeFiles(files) ==
    SelectSeq([x \in 1..Len(files) |-> x], LAMBDA x : IsCodeFile(files[x]))

\* one call of progress_callback(batch_files, scan_results): the batch and
\* the paths that have a result
Progress(b, res) == [batch |-> b, reported |-> DOMAIN res]

\* a callback after the last batch only
OnlyAtEnd(files, i, res, prog) ==
    IF i = CodeFiles(files)[Len(CodeFiles(files))]
    THEN Append(prog, Progress((Len(CodeFiles(files)) + GEMINI_BATCH_SIZE - 1)
                                   \div GEMINI_BATCH_SIZE, res))
    ELSE prog

\* scan_files_with_gemini after code file i: the callback, when i is the last
\* file of its batch
GeminiProgress(files, i, res, prog) ==
    LET c == CodeFiles(files)
        p == CHOOSE x \in DOMAIN c : c[x] = i
    IN IF p % GEMINI_BATCH_SIZE = 0 \/ p = Len(c)
       THEN Append(prog, Progress((p + GEMINI_BATCH_SIZE - 1) \div GEMINI_BATCH_SIZE, res))
       ELSE prog

\* scan_files_with_gemini from file i on, up to its next await of
\* scan_code_for_security or to its return (i = 0)
RECURSIVE GeminiRun(_, _, _, _)
GeminiRun(files, i, res, prog) ==
    IF i > Len(files) THEN [at |-> 0, res |-> NotACodeFile(files, res), prog |-> prog]
    ELSE IF ~IsCodeFile(files[i]) THEN GeminiRun(files, i + 1, res, prog)
    ELSE IF ~IsFile(files[i]) \/ files[i] = "unreadable"
         THEN LET r2 == DictPut(res, i, "normal") IN
              GeminiRun(files, i + 1, r2, GeminiProgress(files, i, r2, prog))
    ELSE [at |-> i, res |-> res, prog |-> prog]

\* every code file in the first batch
AllAtOnce(files, b) == IF b = 1 THEN CodeFiles(files) ELSE << >>

\* batch_files and the files a task is made for, as indices
BatchFiles(files, b) ==
    LET c == CodeFiles(files)
        hi == IF b * SECURITY_BATCH_SIZE < Len(c) THEN b * SECURITY_BATCH_SIZE ELSE Len(c)
    IN SubSeq(c, (b - 1) * SECURITY_BATCH_SIZE + 1, hi)
TasksOf(files, b) ==
    SelectSeq(BatchFiles(files, b), LAMBDA x : IsFile(files[x]))

\* a choice of model that does not look at rate_limited_models
IgnoresLimits(rl, m) == IF m <= NumCheckerModels THEN m ELSE 0

\* check_file_with_retry: the first model from m on that is not rate limited
FirstModel(rl, m) ==
    LET c == {x \in m..NumCheckerModels : x \notin rl} IN
    IF c = {} THEN 0 ELSE CHOOSE x \in c : \A y \in c : x <= y

\* scan_files after gather: batch_results[i] goes to batch_files[i]
BatchDone(files, b, got, res) ==
    LET bf == BatchFiles(files, b)
        ts == TasksOf(files, b)
    IN [f \in (DOMAIN res) \cup Range(bf) |->
          IF f \in DOMAIN res THEN res[f]
          ELSE LET p == CHOOSE x \in DOMAIN bf : bf[x] = f IN
               IF p <= Len(ts) THEN got[ts[p]] ELSE "normal"]

\* SecurityChecker.scan_files from batch b on, up to the await of gather with
\* a request in flight or to its return (at = 0)
RECURSIVE CheckerRun(_, _, _, _, _, _)
CheckerRun(files, b, rl, res, own, prog) ==
    IF (b - 1) * SECURITY_BATCH_SIZE >= Len(CodeFiles(files))
    THEN [at |-> 0, m |-> EmptyDict, res |-> NotACodeFile(files, res), own |-> own,
          prog |-> prog]
    ELSE LET ts == Range(TasksOf(files, b))
             fm == FirstModel(rl, 1)
             got == [f \in ts |-> "normal"]
             r2 == BatchDone(files, b, got, res)
         IN IF ts = {} \/ fm = 0
            THEN CheckerRun(files, b + 1, rl, r2, own @@ got,
                            Append(prog, Progress(b, r2)))
            ELSE [at |-> b, m |-> [f \in ts |-> fm], res |-> res, own |-> own,
                  prog |-> prog]

\* file_handler.cleanup_directory: rmtree removes the directory, or raises
\* and the directory stays
cleanup_directory(dir, rmtree_ok) == IF rmtree_ok THEN FALSE ELSE dir

Malicious(res) == \E f \in DOMAIN res : res[f] = "malicious"

SeqsOf(S, n) == UNION {[1..k -> S] : k \in 1..n}

\* self.rate_limited_models of a SecurityChecker when scan_files is called:
\* empty in its first scan; what earlier scans have left in a later one
CheckerModels == 1..NumCheckerModels
EarlierLimited == {{}, {1}, CheckerModels}

\* process_zip_upload has started the session of user 1, extracted the
\* archive and is about to scan; or a SecurityChecker is about to scan
\* (a new one, or one that has scanned before)
InitScan ==
    LET r == start_upload_session(EmptyDict, EmptyDict, EmptyDict, 0, 1, "channel") IN
    /\ running_bots = EmptyDict
    /\ user_projects = r.up
    /\ user_sessions = r.us
    /\ alive = {}
    /\ spawned = 0
    /\ now = 0
    /\ views = {}
    /\ last = LastNone
    /\ tasks = EmptyBag
    /\ start = Off
    /\ stopper = Off
    /\ \E i \in {"gemini", "checker"}, k \in BOOLEAN, l \in EarlierLimited :
          \E fs \in SeqsOf(FileKinds, IF i = "gemini" THEN MaxFiles ELSE MaxCheckerFiles) :
             /\ i = "checker" => k
             /\ i = "gemini" => l = {}
             /\ scan = [pc |-> "extracted", impl |-> i, key |-> k, files |-> fs, at |-> 0,
                        m |-> EmptyDict, got |-> EmptyDict, res |-> EmptyDict, rl |-> l,
                        failed |-> TRUE, called |-> {}, own |-> EmptyDict, prog |-> << >>, cbraised |-> FALSE,
                        limited |-> l, dir |-> TRUE, selector |-> FALSE]

scanOff == <<running_bots, alive, spawned, now, last, tasks, views, start, stopper>>

\* process_zip_upload once scan_files_with_gemini has returned res: flagged,
\* the directory is cleaned up and the session ended; else the scan passed
Decide(s, res, rmtree_ok) ==
    IF Malicious(res)
    THEN LET e == end_upload_session(user_projects, user_sessions, 1) IN
         /\ scan' = [s EXCEPT !.pc = "rejected", !.res = res,
                              !.dir = cleanup_directory(s.dir, rmtree_ok)]
         /\ user_projects' = e.up
         /\ user_sessions' = e.us
    ELSE /\ scan' = [s EXCEPT !.pc = "passed", !.res = res]
         /\ UNCHANGED <<user_projects, user_sessions>>

\* scan_files_with_gemini goes on from file i
GeminiGoOn(s, i, res, prog, raises, rmtree_ok) ==
    LET g == GeminiRun(s.files, i, res, prog)
        cb == s.cbraised \/ (raises /\ Len(g.prog) > Len(s.prog))
    IN
    IF g.at = 0
    THEN Decide([s EXCEPT !.at = 0, !.m = EmptyDict, !.prog = g.prog, !.cbraised = cb],
                g.res, rmtree_ok)
    ELSE /\ scan' = [s EXCEPT !.pc = "scanning", !.at = g.at, !.res = g.res,
                              !.prog = g.prog, !.cbraised = cb,
                              !.m = [f \in {g.at} |-> 1],
                              !.called = IF s.key THEN s.called \cup {g.at} ELSE s.called]
         /\ UNCHANGED <<user_projects, user_sessions>>

\* SecurityChecker.scan_files goes on from batch b
CheckerGoOn(s, b, res, own, prog, raises) ==
    LET c == CheckerRun(s.files, b, s.rl, res, own, prog) IN
    /\ scan' = [s EXCEPT !.pc = IF c.at = 0 THEN "returned" ELSE "scanning",
                         !.at = c.at, !.m = c.m, !.got = EmptyDict, !.res = c.res,
                         !.own = c.own, !.prog = c.prog,
                         !.cbraised = s.cbraised \/ (raises /\ Len(c.prog) > Len(s.prog)),
                         !.called = s.called \cup DOMAIN c.m]
    /\ UNCHANGED <<user_projects, user_sessions>>

\* the scan is called and runs to its first request; with no code file, or
\* no api key, it returns at once
ScanBegin(raises, rmtree_ok) ==
    /\ scan.pc = "extracted"
    /\ IF scan.impl = "checker" THEN CheckerGoOn(scan, 1, EmptyDict, EmptyDict, << >>, raises)
       ELSE IF CodeFiles(scan.files) = << >>
            THEN Decide(scan, NotACodeFile(scan.files, EmptyDict), rmtree_ok)
            ELSE GeminiGoOn(scan, 1, EmptyDict, << >>, raises, rmtree_ok)
    /\ UNCHANGED scanOff

\* call_gemini without an api key returns (False, None, error) before any
\* request: scan_code_for_security reports the file normal
NoApiKey(raises, rmtree_ok) ==
    LET res == DictPut(scan.res, scan.at,
                       scan_code_for_security(FALSE, Reply("none", 0, FALSE, "absent", FALSE)))
    IN
    /\ scan.pc = "scanning" /\ scan.impl = "gemini" /\ ~scan.key
    /\ GeminiGoOn(scan, scan.at + 1, res,
                  GeminiProgress(scan.files, scan.at, res, scan.prog), raises,
                  rmtree_ok)
    /\ UNCHANGED scanOff

\* a model answers the request of scan_code_for_security for file scan.at
GeminiReply(r, raises, rmtree_ok) ==
    LET f == scan.at
        c == call_gemini(r, scan.m[f])
        lim == IF r.kind = "status" /\ r.code = 429
               THEN scan.limited \cup {scan.m[f]} ELSE scan.limited
        s == [scan EXCEPT !.failed = scan.failed /\ r.kind # "text", !.limited = lim]
        res == DictPut(scan.res, f, scan_code_for_security(c = "success", r))
    IN
    /\ scan.pc = "scanning" /\ scan.impl = "gemini" /\ scan.key
    /\ IF c = "next"
       THEN /\ scan' = [s EXCEPT !.m[f] = scan.m[f] + 1]
            /\ UNCHANGED <<user_projects, user_sessions>>
       ELSE GeminiGoOn(s, f + 1, res, GeminiProgress(scan.files, f, res, scan.prog),
                       raises, rmtree_ok)
    /\ UNCHANGED scanOff

\* a model answers the request of check_file for file f of the batch
CheckerReply(f, r, raises) ==
    LET rl == IF r.kind = "status" /\ r.code = 429 THEN scan.rl \cup {scan.m[f]} ELSE scan.rl
        v == check_file(r)
        nm == FirstModel(rl, scan.m[f] + 1)
        s == [scan EXCEPT !.failed = scan.failed /\ r.kind # "text", !.rl = rl,
                          !.limited = rl]
        got == DictPut(scan.got, f, IF v = "malicious" THEN "malicious" ELSE "normal")
        m == DictDel(scan.m, f)
    IN
    /\ scan.pc = "scanning" /\ scan.impl = "checker"
    /\ f \in DOMAIN scan.m
    /\ IF v # "malicious" /\ nm # 0
       THEN /\ scan' = [s EXCEPT !.m[f] = nm]
            /\ UNCHANGED <<user_projects, user_sessions>>
       ELSE IF DOMAIN m # {}
            THEN /\ scan' = [s EXCEPT !.m = m, !.got = got]
                 /\ UNCHANGED <<user_projects, user_sessions>>
            ELSE LET res == BatchDone(scan.files, scan.at, got, scan.res) IN
                 CheckerGoOn(s, scan.at + 1, res, scan.own @@ got,
                             Append(scan.prog, Progress(scan.at, res)), raises)
    /\ UNCHANGED scanOff

\* show_main_file_selector up to the return of channel.send
ScanShow(has_py, send_ok) ==
    /\ scan.pc = "passed"
    /\ scan' = [scan EXCEPT !.pc = IF send_ok THEN "shown" ELSE "done",
                            !.selector = has_py /\ send_ok]
    /\ UNCHANGED <<user_projects, user_sessions, scanOff>>

\* show_main_file_selector after channel.send: end_upload_session
ScanClose ==
    LET e == end_upload_session(user_projects, user_sessions, 1) IN
    /\ scan.pc = "shown"
    /\ scan' = [scan EXCEPT !.pc = "done"]
    /\ user_projects' = e.up
    /\ user_sessions' = e.us
    /\ UNCHANGED scanOff

NextScan ==
    \/ \E raises, ok \in BOOLEAN : ScanBegin(raises, ok)
    \/ \E raises, ok \in BOOLEAN : NoApiKey(raises, ok)
    \/ \E r \in Replies, raises, ok \in BOOLEAN : GeminiReply(r, raises, ok)
    \/ \E f \in 1..MaxCheckerFiles, r \in Replies, raises \in BOOLEAN : CheckerReply(f, r, raises)
    \/ \E has_py, send_ok \in BOOLEAN : ScanShow(has_py, send_ok)
    \/ ScanClose

SpecScan == InitScan /\ [][NextScan]_vars

\* ------------------------------------------------------------ extract_zip
\* file_handler.extract_zip: the entry-count ceiling
MAX_ZIP_ENTRIES == 10000

\* An archive name: absolute or not, and its segments.  The names an archive
\* of the model draws from, and beside them `pad` further plain files.
Name(abs, segs) == [abs |-> abs, segs |-> segs]
Catalogue ==
    {Name(FALSE, <<"main.py">>), Name(FALSE, <<"util.py">>),
     Name(FALSE, <<"requirements.txt">>), Name(FALSE, <<"pkg", "main.py">>),
     Name(FALSE, <<"..", "evil">>), Name(FALSE, <<"a..b.py">>),
     Name(TRUE, <<"etc", "passwd">>)}
\* entries beside the catalogued ones: none, or enough to come near the ceiling
MaxPad == 3
Pads == {0} \cup {MAX_ZIP_ENTRIES - k : k \in 0..MaxPad}

\* the segments whose text holds ".."
DotDotTexts == {"..", "a..b.py"}

\* os.path.isabs(file_path)
OnlyAbsolute(e) == e.abs

\* os.path.isabs(file_path) or '..' in file_path
UnsafePath(e) == e.abs \/ \E i \in DOMAIN e.segs : e.segs[i] \in DotDotTexts

\* a ceiling that refuses the 10,000th entry
AtCeiling(n) == n >= MAX_ZIP_ENTRIES

\* len(file_list) > 10000
TooManyEntries(n) == n > MAX_ZIP_ENTRIES

\* the files under a directory: the named ones, and how many padding files
NoFiles == [named |-> {}, pad |-> 0]

\* extract_zip(zip_path, extract_to) on archive a, extract_to holding disk:
\* (success, error, all_files) and what extract_to holds afterwards
extract_zip(a, disk) ==
    LET refused(err) == [ok |-> FALSE, err |-> err, files |-> NoFiles, disk |-> disk]
        after == [named |-> disk.named \cup a.names, pad |-> disk.pad + a.pad]
    IN  IF ~a.exists THEN refused("not_found")
        ELSE IF ~a.is_zip THEN refused("invalid")
        ELSE IF TooManyEntries(Cardinality(a.names) + a.pad) THEN refused("too_many")
        ELSE IF \E e \in a.names : UnsafePath(e) THEN refused("unsafe_path")
        ELSE [ok |-> TRUE, err |-> "none", files |-> after, disk |-> after]

\* process_zip_upload: the archive is downloaded to uploaded.zip inside the
\* slot directory it is extracted to
UploadedZip == Name(FALSE, <<"uploaded.zip">>)

\* an archive has been stored, by process_zip_upload in the slot directory
\* or by another caller elsewhere, and extract_zip is about to be called
InitZip ==
    LET r == start_upload_session(EmptyDict, EmptyDict, EmptyDict, 0, 1, "channel") IN
    /\ running_bots = EmptyDict
    /\ user_projects = r.up
    /\ user_sessions = r.us
    /\ alive = {}
    /\ spawned = 0
    /\ now = 0
    /\ views = {}
    /\ last = LastNone
    /\ tasks = EmptyBag
    /\ start = Off
    /\ stopper = Off
    /\ \E flow \in {"upload", "direct"}, names \in SUBSET Catalogue, pad \in Pads,
          ex \in BOOLEAN, zf \in BOOLEAN :
          /\ ex \/ ~zf
          /\ scan = [pc |-> "downloaded", flow |-> flow,
                     archive |-> [exists |-> ex, is_zip |-> zf, names |-> names, pad |-> pad],
                     before |-> [named |-> IF flow = "upload" THEN {UploadedZip} ELSE {},
                                 pad |-> 0],
                     disk |-> [named |-> IF flow = "upload" THEN {UploadedZip} ELSE {},
                               pad |-> 0],
                     ok |-> FALSE, err |-> "none", files |-> NoFiles]

\* extract_zip runs; in process_zip_upload a refusal is reported and the
\* session ended, else uploaded.zip is unlinked (which may fail) and all_files
\* goes to the scan
ExtractZip(unlinked) ==
    LET r == extract_zip(scan.archive, scan.disk)
        e == end_upload_session(user_projects, user_sessions, 1)
        gone == scan.flow = "upload" /\ r.ok /\ unlinked
    IN
    /\ scan.pc = "downloaded"
    /\ scan' = [scan EXCEPT !.pc = IF r.ok THEN "extracted" ELSE "refused",
                            !.ok = r.ok, !.err = r.err, !.files = r.files,
                            !.disk = IF gone
                                     THEN [r.disk EXCEPT !.named = r.disk.named \ {UploadedZip}]
                                     ELSE r.disk]
    /\ user_projects' = IF scan.flow = "upload" /\ ~r.ok THEN e.up ELSE user_projects
    /\ user_sessions' = IF scan.flow = "upload" /\ ~r.ok THEN e.us ELSE user_sessions
    /\ UNCHANGED scanOff

SpecZip == InitZip /\ [][\E unlinked \in BOOLEAN : ExtractZip(unlinked)]_vars

\* ------------------------------------------------------------ stopping one process
\* SessionManager.stop_bot on one entry, or CodeExecutor.stop_process: the
\* caller blocks in process.wait while the child runs on and the clock ticks.
Impls == {"stop_bot", "stop_process"}
\* the timeout argument, whose default is the grace period
Timeouts == 1..GRACE_PERIOD

\* process.wait(timeout=limit) raises TimeoutExpired
ExpiresAtOnce(waited, limit) == TRUE

TimeoutExpired(waited, limit) == waited >= limit

\* a signal sent to the child: after how long a wait, to a live child or not,
\* and on which branch
Signal(sig, why) ==
    [sig |-> sig, after |-> stopper.waited, up |-> Polls(alive, 1), why |-> why]

InitStop ==
    /\ user_projects = EmptyDict
    /\ user_sessions = EmptyDict
    /\ spawned = 1
    /\ now = 0
    /\ views = {}
    /\ last = LastNone
    /\ tasks = EmptyBag
    /\ start = Off
    /\ scan = Off
    /\ alive \in {{}, {1}}
    /\ \E i \in Impls, t \in Timeouts :
          /\ stopper = [pc |-> "begin", impl |-> i, timeout |-> t, waited |-> 0,
                        log |-> << >>, ok |-> FALSE]
          /\ running_bots = IF i = "stop_bot"
                            THEN register_running_bot(EmptyDict, 1, 1, 1)
                            ELSE EmptyDict

stopOff == <<user_projects, user_sessions, spawned, now, views, last, tasks, start, scan>>

\* the stop returns; stop_bot has deleted the entry, and the user's dict
\* when it is left empty
StopReturns(s, ok) ==
    /\ stopper' = [s EXCEPT !.pc = "done", !.ok = ok]
    /\ running_bots' = IF s.impl = "stop_bot" THEN EmptyDict ELSE running_bots

\* the except-Exception branch of the graceful attempt: stop_bot kills at
\* once and goes on, stop_process returns the error
GracefulRaised(s) ==
    IF s.impl = "stop_bot"
    THEN StopReturns([s EXCEPT !.log = Append(s.log, Signal("kill", "error"))], TRUE)
    ELSE StopReturns(s, FALSE)

\* up to the first wait: stop_process returns at once for an exited child;
\* process.terminate(), which may raise
Terminate(raises) ==
    /\ stopper.pc = "begin"
    /\ IF stopper.impl = "stop_process" /\ ~Polls(alive, 1)
       THEN StopReturns(stopper, TRUE)
       ELSE LET s == [stopper EXCEPT !.log = Append(stopper.log, Signal("terminate", "stop"))] IN
            IF raises THEN GracefulRaised(s)
            ELSE /\ stopper' = [s EXCEPT !.pc = "wait1"]
                 /\ UNCHANGED running_bots
    /\ UNCHANGED <<alive, stopOff>>

\* a second passes in process.wait
Tick1 ==
    /\ stopper.pc = "wait1"
    /\ Polls(alive, 1)
    /\ ~TimeoutExpired(stopper.waited, stopper.timeout)
    /\ stopper' = [stopper EXCEPT !.waited = stopper.waited + 1]
    /\ UNCHANGED <<running_bots, alive, stopOff>>

\* the child exits: on the signal, or on its own
ChildExits ==
    /\ Polls(alive, 1)
    /\ stopper.pc # "done"
    /\ alive' = alive \ {1}
    /\ UNCHANGED <<running_bots, stopper, stopOff>>

\* process.wait(timeout) returns: the child has exited
Wait1Returns ==
    /\ stopper.pc = "wait1"
    /\ ~Polls(alive, 1)
    /\ StopReturns(stopper, TRUE)
    /\ UNCHANGED <<alive, stopOff>>

\* process.wait(timeout) raises something else than TimeoutExpired
Wait1Raises ==
    /\ stopper.pc = "wait1"
    /\ GracefulRaised(stopper)
    /\ UNCHANGED <<alive, stopOff>>

\* process.wait(timeout) raises TimeoutExpired: process.kill(), which may
\* raise, then the second wait
Wait1Timeout(raises) ==
    LET s == [stopper EXCEPT !.log = Append(stopper.log, Signal("kill", "timeout"))] IN
    /\ stopper.pc = "wait1"
    /\ Polls(alive, 1)
    /\ TimeoutExpired(stopper.waited, stopper.timeout)
    /\ IF raises THEN StopReturns(s, s.impl = "stop_bot")
       ELSE /\ stopper' = [s EXCEPT !.pc = "wait2", !.waited = 0]
            /\ UNCHANGED running_bots
    /\ UNCHANGED <<alive, stopOff>>

\* a second passes in process.wait(timeout=2)
Tick2 ==
    /\ stopper.pc = "wait2"
    /\ Polls(alive, 1)
    /\ ~TimeoutExpired(stopper.waited, KILL_WAIT)
    /\ stopper' = [stopper EXCEPT !.waited = stopper.waited + 1]
    /\ UNCHANGED <<running_bots, alive, stopOff>>

\* process.wait(timeout=2) returns: the child is gone
Wait2Returns ==
    /\ stopper.pc = "wait2"
    /\ ~Polls(alive, 1)
    /\ StopReturns(stopper, TRUE)
    /\ UNCHANGED <<alive, stopOff>>

\* process.wait(timeout=2) raises TimeoutExpired, or something else: caught
\* by except Exception, the stop goes on without another signal
Wait2Raises ==
    /\ stopper.pc = "wait2"
    /\ \/ Polls(alive, 1) /\ TimeoutExpired(stopper.waited, KILL_WAIT)
       \/ stopper.waited < KILL_WAIT
    /\ StopReturns(stopper, stopper.impl = "stop_bot")
    /\ UNCHANGED <<alive, stopOff>>

NextStop ==
    \/ \E raises \in BOOLEAN : Terminate(raises)
    \/ Tick1
    \/ ChildExits
    \/ Wait1Returns
    \/ Wait1Raises
    \/ \E raises \in BOOLEAN : Wait1Timeout(raises)
    \/ Tick2
    \/ Wait2Returns
    \/ Wait2Raises

SpecStop == InitStop /\ [][NextStop]_vars

\* ------------------------------------------------------------ monitor_console_output
\* One child process (pid 1), the task that monitors its output, and a stop
\* request made by another task.  The child writes text lines to the pipe;
\* a line is its number among the lines with text, or 0 when strip() leaves
\* it empty.  The monitor's call of readline() is made on the event loop's
\* thread and does not return before a line or the end of the stream is
\* there; the loop is free for another task only while the monitor is
\* suspended at an await or has returned.
\* CodeExecutor(max_console_lines=50): the lines retained, shorter here
max_console_lines == 4
\* CodeExecutor(update_interval=3)
update_interval == 3
\* the lines one child writes
MaxLines == 6

\* a buffer that is never shortened
KeepAll(lines, line) == Append(lines, line)

\* output_lines.append(line), then pop(0) when over max_console_lines
Retain(lines, line) ==
    LET l == Append(lines, line) IN
    IF Len(l) > max_console_lines THEN Tail(l) ELSE l

\* the lines of a text that strip() does not leave empty
Stripped(text) == SelectSeq(text, LAMBDA l : l # 0)

\* the branch taken once the process has ended: every remaining line with
\* text is retained
RECURSIVE Drain(_, _)
Drain(lines, rest) ==
    IF rest = << >> THEN lines
    ELSE Drain(IF Head(rest) # 0 THEN Retain(lines, Head(rest)) ELSE lines, Tail(rest))

\* a monitor that takes every process for ended
AlwaysEnded(al) == TRUE

\* process.poll() is not None
HasEnded(al) == ~Polls(al, 1)

\* len(output_lines) % 3 == 0 or (current_time - last_update) > update_interval
UpdateDue(lines, elapsed) == Len(lines) % 3 = 0 \/ elapsed > update_interval

\* the time since last_update, as far as the comparison can tell it apart
Elapsed == 0..(update_interval + 1)

\* what the pipe still holds
Unread(m) == SubSeq(m.emitted, m.read + 1, Len(m.emitted))

\* the monitor is suspended at an await, or has returned
LoopFree(m) == m.pc \in {"sleep", "callback", "returned"}

\* last_update = 0 and time.time() is far from it
InitMonitor ==
    /\ running_bots = [u \in {1} |-> [s \in {1} |-> [process |-> 1]]]
    /\ user_projects = EmptyDict
    /\ user_sessions = EmptyDict
    /\ alive = {1}
    /\ spawned = 1
    /\ now = 0
    /\ views = {}
    /\ last = LastNone
    /\ tasks = EmptyBag
    /\ stopper = Off
    /\ scan = Off
    /\ start = [pc |-> "poll", emitted |-> << >>, read |-> 0, output_lines |-> << >>,
                elapsed |-> update_interval + 1, since |-> 0, drains |-> 0]

monitorOff == <<running_bots, user_projects, user_sessions, spawned, now, views, last,
                tasks, stopper, scan>>

\* the child writes a line
ChildPrints(blank) ==
    /\ Polls(alive, 1)
    /\ Len(start.emitted) < MaxLines
    /\ start' = [start EXCEPT !.emitted =
                    Append(@, IF blank THEN 0 ELSE Len(Stripped(@)) + 1)]
    /\ UNCHANGED <<alive, monitorOff>>

\* the child ends on its own
ChildEnds ==
    /\ Polls(alive, 1)
    /\ alive' = {}
    /\ UNCHANGED <<start, monitorOff>>

\* a stop request handled by another task, when the event loop runs it: the
\* child is terminated
StopRequest ==
    /\ LoopFree(start)
    /\ Polls(alive, 1)
    /\ alive' = {}
    /\ UNCHANGED <<start, monitorOff>>

\* time passes
Clock ==
    /\ start.pc # "returned"
    /\ start.elapsed <= update_interval
    /\ start' = [start EXCEPT !.elapsed = @ + 1]
    /\ UNCHANGED <<alive, monitorOff>>

\* the top of the loop: the process has ended, the rest is read and the
\* monitor returns; or readline() is called
MonitorPoll ==
    /\ start.pc = "poll"
    /\ IF HasEnded(alive)
       THEN start' = [start EXCEPT !.pc = "returned",
                                   !.output_lines = Drain(@, Unread(start)),
                                   !.read = Len(start.emitted),
                                   !.drains = @ + 1]
       ELSE start' = [start EXCEPT !.pc = "readline"]
    /\ UNCHANGED <<alive, monitorOff>>

\* readline() returns: the next line, or the empty string at the end of the
\* stream
MonitorReadline ==
    /\ start.pc = "readline"
    /\ Unread(start) # << >> \/ ~Polls(alive, 1)
    /\ IF Unread(start) = << >>
       THEN start' = [start EXCEPT !.pc = "sleep"]
       ELSE LET line == Head(Unread(start))
                lines == Retain(start.output_lines, line)
            IN IF line = 0
               THEN start' = [start EXCEPT !.pc = "poll", !.read = @ + 1]
               ELSE start' = [start EXCEPT
                                 !.pc = IF UpdateDue(lines, start.elapsed)
                                        THEN "callback" ELSE "poll",
                                 !.read = @ + 1,
                                 !.output_lines = lines,
                                 !.since = @ + 1]
    /\ UNCHANGED <<alive, monitorOff>>

\* await asyncio.sleep(0.5) is over
MonitorSleep ==
    /\ start.pc = "sleep"
    /\ start' = [start EXCEPT !.pc = "poll"]
    /\ UNCHANGED <<alive, monitorOff>>

\* await output_callback(...) is over: last_update is set unless it raised
MonitorCallback(raises) ==
    /\ start.pc = "callback"
    /\ start' = [start EXCEPT !.pc = "poll", !.since = 0,
                              !.elapsed = IF raises THEN @ ELSE 0]
    /\ UNCHANGED <<alive, monitorOff>>

MonitorStep ==
    \/ MonitorPoll
    \/ MonitorReadline
    \/ MonitorSleep
    \/ \E raises \in BOOLEAN : MonitorCallback(raises)

NextMonitor ==
    \/ \E blank \in BOOLEAN : ChildPrints(blank)
    \/ ChildEnds
    \/ StopRequest
    \/ Clock
    \/ MonitorPoll
    \/ MonitorReadline
    \/ MonitorSleep
    \/ \E raises \in BOOLEAN : MonitorCallback(raises)

SpecMonitor == InitMonitor /\ [][NextMonitor]_vars

\* the event loop resumes the monitor whenever it can take a step
SpecMonitorFair == SpecMonitor /\ WF_vars(MonitorStep)

\* ------------------------------------------------------------ watch_new_files
\* The watcher task of user 1, slot 1, created after the process of the slot
\* was registered, beside the calls that change the registry: the process
\* exits, stop_bot, get_running_bots_count, a new process registered in the
\* slot.  Files appear in the slot directory while a child runs.
\* files that may appear in the directory
MaxNewFiles == 2
WatchFiles == 1..MaxNewFiles
\* processes registered in the slot, one after another
MaxRuns == 2

\* What a name in the directory is: a regular file (0), a symbolic link to
\* another name of the directory, or a symbolic link to a file outside it.
Outside == -1
LinkKinds(f) == {0, Outside} \cup (WatchFiles \ {f})

\* (user_dir / mf).resolve(): the links are followed; a name that is not
\* there is left as it is, a loop of links raises
RECURSIVE WatchResolve(_, _, _, _)
WatchResolve(dir, link, f, fuel) ==
    IF f \notin dir \/ link[f] = 0 THEN f
    ELSE IF link[f] = Outside THEN Outside
    ELSE IF fuel = 0 THEN None
    ELSE WatchResolve(dir, link, link[f], fuel - 1)

\* the file unlinked for the malicious name mf: target.relative_to(user_dir)
\* passes and target.exists(); {} when nothing is unlinked
Unlinked(dir, link, mf) ==
    LET target == WatchResolve(dir, link, mf, MaxNewFiles) IN
    IF target \in WatchFiles /\ target \in dir THEN {target} ELSE {}

\* a loop that goes on whatever is_bot_running answers
NeverEnds(running) == "sleep"

\* while session_manager.is_bot_running(user_id, slot): the body begins with
\* await asyncio.sleep(poll_interval)
LoopTop(running) == IF running THEN "sleep" ELSE "ended"

InitWatch ==
    /\ running_bots = register_running_bot(EmptyDict, 1, 1, 1)
    /\ user_projects = EmptyDict
    /\ user_sessions = EmptyDict
    /\ alive = {1}
    /\ spawned = 1
    /\ now = 0
    /\ views = {<<1, 1>>}
    /\ last = LastNone
    /\ tasks = EmptyBag
    /\ start = Off
    /\ scan = Off
    /\ \E d \in SUBSET WatchFiles :
          stopper = [pc |-> "created", dir |-> d, link |-> [f \in WatchFiles |-> 0],
                     outside |-> TRUE, known_files |-> {}, new_files |-> {},
                     malicious |-> {}]

watchOff == <<running_bots, user_projects, user_sessions, alive, spawned, now, views,
              last, tasks, start, scan>>

\* the watcher is back at the head of its while loop
WhileCheck(w) ==
    stopper' = [w EXCEPT !.pc = LoopTop(is_bot_running(running_bots, alive, 1, 1)),
                         !.new_files = {}, !.malicious = {}]

\* known_files = set(get_all_files(user_dir)), then the first check
WatchBegin ==
    /\ stopper.pc = "created"
    /\ WhileCheck([stopper EXCEPT !.known_files = stopper.dir])
    /\ UNCHANGED watchOff

\* the sleep is over: the files that were not there at the last poll; with
\* none the loop continues
WatchPoll ==
    LET new == stopper.dir \ stopper.known_files
        w == [stopper EXCEPT !.known_files = stopper.dir]
    IN
    /\ stopper.pc = "sleep"
    /\ IF new = {} THEN WhileCheck(w)
       ELSE stopper' = [w EXCEPT !.pc = "scan", !.new_files = new]
    /\ UNCHANGED watchOff

\* scan_files_with_gemini raised: continue
WatchScanRaised ==
    /\ stopper.pc = "scan"
    /\ WhileCheck(stopper)
    /\ UNCHANGED watchOff

\* the scan returned mal as malicious: for each the resolved target is
\* unlinked (for those in gone; for the others the attempt raises); then the
\* user is fetched
WatchScanned(mal, gone) ==
    LET del == UNION {Unlinked(stopper.dir, stopper.link, mf) : mf \in gone} IN
    /\ stopper.pc = "scan"
    /\ mal \subseteq stopper.new_files
    /\ gone \subseteq mal
    /\ stopper' = [stopper EXCEPT !.pc = "fetch", !.dir = @ \ del,
                                  !.link = [f \in WatchFiles |-> IF f \in del THEN 0 ELSE @[f]],
                                  !.malicious = mal]
    /\ UNCHANGED watchOff

\* bot.fetch_user returned, or raised: continue
WatchFetched(raised) ==
    /\ stopper.pc = "fetch"
    /\ IF raised THEN WhileCheck(stopper)
       ELSE stopper' = [stopper EXCEPT !.pc = "send"]
    /\ UNCHANGED watchOff

\* user.send returned or raised: the iteration is over
WatchSent ==
    /\ stopper.pc = "send"
    /\ WhileCheck(stopper)
    /\ UNCHANGED watchOff

\* a running child creates a file, or a symbolic link, in the slot directory
NewFile(f, k) ==
    /\ alive # {}
    /\ f \notin stopper.dir
    /\ stopper' = [stopper EXCEPT !.dir = @ \cup {f}, !.link[f] = k]
    /\ UNCHANGED watchOff

WatchStep ==
    \/ WatchBegin
    \/ WatchPoll
    \/ WatchScanRaised
    \/ \E mal, gone \in SUBSET WatchFiles : WatchScanned(mal, gone)
    \/ \E raised \in BOOLEAN : WatchFetched(raised)
    \/ WatchSent

NextWatch ==
    \/ WatchBegin
    \/ WatchPoll
    \/ WatchScanRaised
    \/ \E mal, gone \in SUBSET WatchFiles : WatchScanned(mal, gone)
    \/ \E raised \in BOOLEAN : WatchFetched(raised)
    \/ WatchSent
    \/ \E f \in WatchFiles : \E k \in LinkKinds(f) : NewFile(f, k)
    \/ \E pid \in Pids : ProcessExit(pid)
    \/ \E o \in [Targets(running_bots, alive, 1, 1) -> StopOutcomes] : CallStop(1, 1, o)
    \/ CallCount
    \/ CallRegister(1, 1, MaxRuns)

SpecWatch == InitWatch /\ [][NextWatch]_vars

\* ------------------------------------------------------------ properties
\* C1: for every user, in every reachable state, the number of running
\* processes get_running_bots_count_for_user reports is at most
\* MAX_BOTS_PER_USER.
CapHolds ==
    \A u \in Users :
        get_running_bots_count_for_user(running_bots, alive, u) <= MAX_BOTS_PER_USER

\* a user with MAX_BOTS_PER_USER live bots, and a slot reserved on top of them
\* being refused
CapReached ==
    \E u \in Users :
        /\ get_running_bots_count_for_user(running_bots, alive, u) = MAX_BOTS_PER_USER
        /\ last.op = "start_upload_session" /\ last.u = u /\ ~last.ok

\* C2: a slot is never at once the slot of the user's active upload session
\* and a slot with a registered process.
NeverReservedAndRegistered ==
    \A u \in Users : \A s \in Slots :
        ~(/\ u \in DOMAIN user_projects
          /\ user_projects[u].slot = s
          /\ s \in SlotsOf(running_bots, u))

\* C3: in a run of N consecutive start_upload_session calls for one user that
\* began with K <= N free slots, exactly K calls succeed, with pairwise
\* distinct slots (and so N - K fail).
BurstGrantsFreeSlots ==
    last.op = "start_upload_session" =>
        LET n == Len(last.bres)
            k == Cardinality(last.bfree)
            won == {i \in 1..n : last.bres[i] # None}
        IN k <= n => /\ Cardinality(won) = k
                     /\ \A i \in won : \A j \in won : i # j => last.bres[i] # last.bres[j]

\* C4: register_running_bot never replaces the entry of a process that is
\* still alive in the same (user, slot).
NeverReplacesLive ==
    [][\A u \in Users : \A s \in Slots :
         (/\ s \in SlotsOf(running_bots, u)
          /\ Polls(alive, running_bots[u][s].process)
          /\ s \in SlotsOf(running_bots', u))
         => running_bots'[u][s].process = running_bots[u][s].process]_vars

\* C8: cleanup_expired_sessions leaves running_bots unchanged, removes only
\* the user_sessions / user_projects entries of sessions older than
\* session_timeout, and every bot is_bot_running reported before the call is
\* reported after it.
CleanupFrame ==
    [][CallCleanup =>
         /\ running_bots' = running_bots
         /\ \A u \in Users : \A s \in Slots :
               is_bot_running(running_bots, alive, u, s)
               => is_bot_running(running_bots', alive', u, s)
         /\ \A u \in DOMAIN user_sessions :
               IF (now - user_sessions[u].last_activity) > SessionTimeout
               THEN u \notin DOMAIN user_sessions' /\ u \notin DOMAIN user_projects'
               ELSE u \in DOMAIN user_sessions' /\ user_sessions'[u] = user_sessions[u]
         /\ \A u \in (DOMAIN user_projects) \ DOMAIN user_sessions' :
               /\ u \in DOMAIN user_sessions
               /\ (now - user_sessions[u].last_activity) > SessionTimeout
         /\ \A u \in DOMAIN user_projects' :
               u \in DOMAIN user_projects /\ user_projects'[u] = user_projects[u]]_vars

\* a cleanup that removed the session of a user with a live bot and kept the
\* session of another user
CleanupSparedBot ==
    /\ last.op = "cleanup_expired_sessions"
    /\ last.ok
    /\ \E u \in Users : /\ u \notin DOMAIN user_sessions
                        /\ \E s \in Slots : /\ is_bot_running(running_bots, alive, u, s)
                                            /\ running_bots[u][s].process \in last.pids
    /\ DOMAIN user_sessions # {}

\* C9: after stop_bot returns for a user that has registry entries, the
\* targeted entries (the given slot, or all of the user's when slot is None)
\* are not in running_bots and is_bot_running is false for them, whatever the
\* termination did.
StopRemoves ==
    (last.op = "stop_bot" /\ last.ok) =>
        /\ IF last.s = None
           THEN last.u \notin DOMAIN running_bots
           ELSE last.s \notin SlotsOf(running_bots, last.u)
        /\ ~is_bot_running(running_bots, alive, last.u, last.s)
        /\ \A u \in DOMAIN running_bots : \A s \in DOMAIN running_bots[u] :
              running_bots[u][s].process \notin last.pids

\* a stop_bot whose kill failed: the process is alive, its entry is gone
StopLeftSurvivor ==
    /\ last.op = "stop_bot"
    /\ last.ok
    /\ last.pids \cap alive # {}

\* C5: start_process never spawns a child when the script path, with its
\* symlinks and relative segments resolved, lies outside working_dir; it
\* returns an error and no process.
NoSpawnOutside ==
    (start.pc = "returned" /\ resolve(start.p.segs)[1] > 0) =>
        /\ start.result # "spawned"
        /\ alive = {}
        /\ spawned = 0

\* a script that exists, is a file and could be run, reached through a
\* symlink out of working_dir without any ".." in its path: refused
SymlinkEscapeRefused ==
    /\ start.pc = "returned"
    /\ start.p.exists /\ start.p.is_file /\ start.p.popen_ok
    /\ NoDotDot(start.p.segs)
    /\ resolve(start.p.segs)[1] > 0
    /\ start.result = "outside"

\* C6: the entry-file selector is presented only when no file of the upload
\* got the verdict 'malicious'; when a file did, the slot directory is
\* deleted, the upload session is ended and no selector is presented.
MaliciousUploadDeleted ==
    /\ scan.selector => ~Malicious(scan.res)
    /\ (/\ scan.impl = "gemini"
        /\ scan.pc \notin {"extracted", "scanning"}
        /\ Malicious(scan.res))
       => /\ ~scan.dir
          /\ ~is_user_uploading(user_projects, 1)
          /\ 1 \notin DOMAIN user_sessions
          /\ ~scan.selector

\* C7: when every model fails for every file of a scan (error status, rate
\* limit, timeout, a body without candidate text, an empty reply), the scan
\* returns an entry for every input path, each of type 'normal', and the
\* upload is not rejected.
FailOpen ==
    (scan.pc \in {"passed", "rejected", "returned", "shown", "done"} /\ scan.failed) =>
        /\ DOMAIN scan.res = 1..Len(scan.files)
        /\ \A f \in DOMAIN scan.res : scan.res[f] = "normal"
        /\ scan.pc # "rejected"

\* a scan that returned after requests for a readable code file were made
\* and every one of them failed
AllModelsFailed ==
    /\ scan.pc \in {"passed", "returned"}
    /\ scan.failed
    /\ scan.key
    /\ \E f \in 1..Len(scan.files) : scan.files[f] = "code"

\* C10: a stop sends terminate first; the kill is sent only once
\* process.wait has timed out after the whole grace period with the child
\* still alive; at most one kill is sent, and the wait that follows it lasts
\* at most KILL_WAIT.
KillOnlyAfterGrace ==
    LET log == stopper.log IN
    /\ log # << >> => log[1].sig = "terminate"
    /\ \A i \in DOMAIN log : log[i].sig = "kill" =>
          /\ log[i].after = stopper.timeout
          /\ log[i].up
    /\ Cardinality({i \in DOMAIN log : log[i].sig = "kill"}) <= 1
    /\ stopper.pc = "wait2" => stopper.waited <= KILL_WAIT

\* C10, as the code has it: a stop sends terminate first; the kill is sent
\* either once process.wait has timed out after the whole grace period with
\* the child still alive, or, in SessionManager.stop_bot only, at once when
\* terminate() or wait() raised another error; at most one kill is sent, the
\* wait that follows it lasts at most KILL_WAIT, and the stop then returns.
KillAfterGraceOrError ==
    LET log == stopper.log IN
    /\ log # << >> => log[1].sig = "terminate"
    /\ \A i \in DOMAIN log : log[i].sig = "kill" =>
          \/ /\ log[i].why = "timeout"
             /\ log[i].after = stopper.timeout
             /\ log[i].up
          \/ /\ log[i].why = "error"
             /\ stopper.impl = "stop_bot"
             /\ stopper.pc = "done"
    /\ Cardinality({i \in DOMAIN log : log[i].sig = "kill"}) <= 1
    /\ stopper.pc = "wait2" => stopper.waited <= KILL_WAIT
    /\ (stopper.pc = "done" /\ stopper.impl = "stop_bot") => running_bots = EmptyDict

\* a stop that returned after the kill failed: the grace period and the
\* second wait both ran out, the child is alive, one kill was sent
FailedKillNotRetried ==
    /\ stopper.pc = "done"
    /\ Polls(alive, 1)
    /\ Len(stopper.log) = 2
    /\ stopper.log[2].sig = "kill"
    /\ stopper.log[2].why = "timeout"
    /\ stopper.waited = KILL_WAIT

\* a stop_bot call for (u, slot) made while no process runs there
StopOfStopped(u, slot) ==
    /\ ~is_bot_running(running_bots, alive, u, slot)
    /\ \E o \in [Targets(running_bots, alive, u, slot) -> StopOutcomes] : CallStop(u, slot, o)

\* C11: stop_bot on a (user, slot) that is already stopped, a user without
\* any registry entry included, returns success.
StopOfStoppedSucceeds ==
    [][\A u \in Users : \A slot \in Slots \cup {None} :
         StopOfStopped(u, slot) => last'.ok]_vars

\* C12: stop_bot on a (user, slot) that has no running process leaves
\* running_bots, user_projects and user_sessions unchanged.
StopOfStoppedChangesNothing ==
    [][\A u \in Users : \A slot \in Slots :
         StopOfStopped(u, slot) =>
            /\ running_bots' = running_bots
            /\ user_projects' = user_projects
            /\ user_sessions' = user_sessions]_vars

\* C12, as the code has it: stop_bot on a (user, slot) that has no running
\* process leaves user_projects, user_sessions, the entries of the user's
\* other slots and of the other users unchanged; the one entry it removes is
\* that of (user, slot) itself, when an exited process is still registered
\* there.
StopOfStoppedFrame ==
    [][\A u \in Users : \A slot \in Slots :
         StopOfStopped(u, slot) =>
            /\ user_projects' = user_projects
            /\ user_sessions' = user_sessions
            /\ alive' = alive
            /\ slot \notin SlotsOf(running_bots', u)
            /\ slot \notin SlotsOf(running_bots, u) => running_bots' = running_bots
            /\ \A v \in Users : \A k \in Slots :
                  (v # u \/ k # slot) =>
                     /\ (k \in SlotsOf(running_bots', v)) = (k \in SlotsOf(running_bots, v))
                     /\ k \in SlotsOf(running_bots, v)
                           => running_bots'[v][k] = running_bots[v][k]]_vars

\* a stop of a slot without an entry, for a user whose other slot holds a
\* live bot, while another user holds one too
StoppedSlotBesideLiveBots ==
    /\ last.op = "stop_bot" /\ last.ok /\ last.s # None /\ last.pids = {}
    /\ is_bot_running(running_bots, alive, last.u, None)
    /\ \E v \in Users \ {last.u} : is_bot_running(running_bots, alive, v, None)

\* C13: a successful start_upload_session(user) grants the lowest slot of
\* 1..MAX_BOTS_PER_USER that is neither a key of the user's running_bots nor
\* the slot of the user's current upload session, and records it in
\* user_projects and user_sessions; when there is no such slot it fails and
\* leaves running_bots, user_projects and user_sessions unchanged.
GrantsLowestFreeSlot ==
    [][\A u \in Users : \A loc \in Locations :
         CallStart(u, loc) =>
            LET free == {s \in 1..MAX_BOTS_PER_USER :
                           /\ s \notin SlotsOf(running_bots, u)
                           /\ ~(u \in DOMAIN user_projects /\ user_projects[u].slot = s)}
            IN /\ running_bots' = running_bots
               /\ IF free = {}
                  THEN /\ ~last'.ok
                       /\ user_projects' = user_projects
                       /\ user_sessions' = user_sessions
                  ELSE /\ last'.ok
                       /\ last'.s \in free
                       /\ \A s \in free : last'.s <= s
                       /\ user_projects'[u].slot = last'.s
                       /\ user_sessions'[u].slot = last'.s
                       /\ user_projects'[u].project_path = get_user_project_dir(u, last'.s)]_vars

\* slot 2 granted because slot 1 holds a registered bot
SecondSlotGranted ==
    /\ last.op = "start_upload_session" /\ last.ok /\ last.s = 2
    /\ 1 \in SlotsOf(running_bots, last.u)
    /\ user_projects[last.u].slot = 2

\* C14: end_upload_session(user) returns success, removes the user's entries
\* of user_projects and user_sessions and nothing else, leaves running_bots
\* unchanged, changes nothing when the user has no session, and a second
\* call right after it changes nothing.
EndSessionIdempotent ==
    [][\A u \in Users :
         CallEnd(u) =>
            LET again == end_upload_session(user_projects', user_sessions', u) IN
            /\ last'.ok
            /\ running_bots' = running_bots /\ alive' = alive
            /\ user_projects' = DictDel(user_projects, u)
            /\ user_sessions' = DictDel(user_sessions, u)
            /\ ~is_user_uploading(user_projects, u) /\ u \notin DOMAIN user_sessions
                  => user_projects' = user_projects /\ user_sessions' = user_sessions
            /\ again.ok /\ again.up = user_projects' /\ again.us = user_sessions']_vars

\* a session ended for a user with a live bot while another user's session
\* stays
SessionEndedBesideBot ==
    /\ last.op = "end_upload_session" /\ last.ok
    /\ is_bot_running(running_bots, alive, last.u, None)
    /\ \E v \in Users \ {last.u} : is_user_uploading(user_projects, v)

\* C15: is_bot_running(user, slot) is true exactly when a process is
\* registered for (user, slot) and is alive; with slot None, exactly when one
\* of the user's registered processes is alive.  An exited process is never
\* reported as running.
RunningIffRegisteredAlive ==
    \A u \in Users :
        LET live == {k \in Slots : \E pid \in alive :
                        /\ u \in DOMAIN running_bots
                        /\ k \in DOMAIN running_bots[u]
                        /\ running_bots[u][k].process = pid}
        IN /\ \A k \in Slots : is_bot_running(running_bots, alive, u, k) <=> k \in live
           /\ is_bot_running(running_bots, alive, u, None) <=> live # {}

\* a user with the entry of an exited process beside a live bot
ExitedBesideLive ==
    \E u \in DOMAIN running_bots : \E k, j \in DOMAIN running_bots[u] :
        /\ running_bots[u][k].process \notin alive
        /\ ~is_bot_running(running_bots, alive, u, k)
        /\ is_bot_running(running_bots, alive, u, j)
        /\ is_bot_running(running_bots, alive, u, None)

\* the entries of exited processes
Stale(rb, al, u) == {k \in SlotsOf(rb, u) : ~Polls(al, rb[u][k].process)}

\* C16: after get_running_bots_count() running_bots holds no entry of an
\* exited process for any user, and after
\* get_running_bots_count_for_user(user) running_bots[user] holds none.
BothCountsReap ==
    [][/\ CallCount => \A u \in Users : Stale(running_bots', alive', u) = {}
       /\ \A u \in Users : CallCountFor(u) => Stale(running_bots', alive', u) = {}]_vars

ZipReturned == scan.pc \in {"extracted", "refused"}
ZipEntries == Cardinality(scan.archive.names) + scan.archive.pad
ZipRefused == ~scan.ok /\ scan.files = NoFiles /\ scan.disk = scan.before

\* C17: extract_zip refuses an archive that has an entry with an absolute
\* path or a ".." segment: it returns failure and an empty file list, and
\* the destination directory holds what it held before the call.
UnsafeArchiveRefused ==
    (/\ ZipReturned
     /\ \E e \in scan.archive.names : e.abs \/ \E i \in DOMAIN e.segs : e.segs[i] = "..")
    => ZipRefused

\* an archive within the ceiling, with main.py and "../evil", refused for
\* the path
DotDotEntryRefused ==
    /\ ZipReturned
    /\ Name(FALSE, <<"main.py">>) \in scan.archive.names
    /\ Name(FALSE, <<"..", "evil">>) \in scan.archive.names
    /\ \A e \in scan.archive.names : ~e.abs
    /\ scan.err = "unsafe_path"
    /\ ZipRefused

\* C18: extract_zip refuses every zip archive with more than 10,000 entries,
\* on the ground of the count even when an entry has an unsafe path, and
\* with nothing extracted; an archive with 10,000 entries or fewer is not
\* refused on that ground.
EntryCeiling ==
    (ZipReturned /\ scan.archive.exists /\ scan.archive.is_zip) =>
        IF ZipEntries > 10000
        THEN scan.err = "too_many" /\ ZipRefused
        ELSE scan.err # "too_many"

\* 10,001 entries, one of them "../evil": refused for the count; and 10,000
\* entries extracted
CountCheckedFirst ==
    /\ ZipReturned
    /\ ZipEntries = 10001
    /\ Name(FALSE, <<"..", "evil">>) \in scan.archive.names
    /\ scan.err = "too_many"

\* C19: in the upload flow, the file list extract_zip returns for a valid
\* archive is exactly the set of files of the archive.
ListIsArchiveFiles ==
    (ZipReturned /\ scan.flow = "upload" /\ scan.ok) =>
        /\ scan.files.named = scan.archive.names
        /\ scan.files.pad = scan.archive.pad

\* C20: the classifier is called only for files with a code extension; every
\* other file of a scan gets the verdict normal without a call, and the
\* mapping a scan returns has one entry for each input path.
OnlyCodeFilesClassified ==
    /\ scan.pc # "extracted" =>
          \A f \in scan.called : scan.files[f] # "noncode"
    /\ scan.pc \in {"passed", "rejected", "returned", "shown", "done"} =>
          /\ DOMAIN scan.res = 1..Len(scan.files)
          /\ \A f \in DOMAIN scan.res :
                scan.files[f] = "noncode" => scan.res[f] = "normal" /\ f \notin scan.called

\* a scan that flagged a code file and returned beside it an entry for a file
\* without a code extension
FlaggedBesideOtherFile ==
    /\ scan.pc \in {"rejected", "returned"}
    /\ \E f, g \in DOMAIN scan.res :
          /\ scan.files[f] = "noncode" /\ f \notin scan.called
          /\ scan.files[g] = "code" /\ g \in scan.called /\ scan.res[g] = "malicious"

\* the batch size of the scan in progress, the batch of code file f, and the
\* batch the scan is at
BatchSize == IF scan.impl = "gemini" THEN GEMINI_BATCH_SIZE ELSE SECURITY_BATCH_SIZE
BatchOf(f) ==
    LET c == CodeFiles(scan.files)
        p == CHOOSE x \in DOMAIN c : c[x] = f
    IN (p + BatchSize - 1) \div BatchSize
CurrentBatch == IF scan.impl = "gemini" THEN BatchOf(scan.at) ELSE scan.at

\* C21: batches are processed one after another: while a scan is in progress
\* every classification in flight is of a file of the current batch, every
\* file of an earlier batch has its result, no call was made for a file of a
\* later batch, and at most batch-size classifications are in flight.
BatchesSequential ==
    scan.pc = "scanning" =>
        /\ \A f \in DOMAIN scan.m : IsCodeFile(scan.files[f]) /\ BatchOf(f) = CurrentBatch
        /\ \A f \in scan.called : BatchOf(f) <= CurrentBatch
        /\ \A f \in Range(CodeFiles(scan.files)) :
              BatchOf(f) < CurrentBatch => f \in DOMAIN scan.res /\ f \notin DOMAIN scan.m
        /\ Cardinality(DOMAIN scan.m) <= BatchSize

\* the second batch of a SecurityChecker in flight after a first batch of
\* batch-size calls
SecondBatchInFlight ==
    /\ scan.pc = "scanning" /\ scan.impl = "checker" /\ scan.at = 2
    /\ DOMAIN scan.m # {}
    /\ Cardinality(scan.called) = SECURITY_BATCH_SIZE + 1

\* the number of batches of the scan, and whether it has returned
NumBatches == (Len(CodeFiles(scan.files)) + BatchSize - 1) \div BatchSize
ScanReturned == scan.pc \in {"passed", "rejected", "returned", "shown", "done"}

\* C22: the progress callback fires once after each batch of code files, in
\* batch order; the results passed after batch N have an entry for every file
\* of batches 1..N and the reported set only grows; whether or not a callback
\* raised, the scan goes through every batch and returns an entry for every
\* path.
ProgressPerBatch ==
    /\ scan.pc = "scanning" => Len(scan.prog) = CurrentBatch - 1
    /\ ScanReturned =>
          /\ Len(scan.prog) = NumBatches
          /\ DOMAIN scan.res = 1..Len(scan.files)
    /\ \A k \in DOMAIN scan.prog :
          /\ scan.prog[k].batch = k
          /\ \A f \in Range(CodeFiles(scan.files)) :
                BatchOf(f) <= k => f \in scan.prog[k].reported
          /\ \A j \in DOMAIN scan.prog :
                j <= k => scan.prog[j].reported \subseteq scan.prog[k].reported
          /\ scan.prog[k].reported \subseteq DOMAIN scan.res

\* a scan of two batches that returned although a callback raised
ReturnedAfterCallbackRaised ==
    /\ ScanReturned /\ scan.cbraised
    /\ Len(scan.prog) = 2
    /\ scan.prog[1].reported # scan.prog[2].reported

\* C23: for one file the models are tried in the order of the model list,
\* the next one when a model fails, and a model that has answered with the
\* rate-limit status is not called again in the same scan: every call a step
\* issues goes to the first model, after the one just tried for the file,
\* that has not answered 429.
ModelsInOrderSkippingLimited ==
    [][scan'.pc = "scanning" /\ scan'.key =>
          \A f \in DOMAIN scan'.m :
             LET was == scan.pc = "scanning" /\ f \in DOMAIN scan.m
                 from == IF was THEN scan.m[f] + 1 ELSE 1
             IN \/ was /\ scan'.m[f] = scan.m[f]
                \/ /\ scan'.m[f] >= from
                   /\ scan'.m[f] \notin scan'.limited
                   /\ \A k \in from..(scan'.m[f] - 1) : k \in scan'.limited]_vars

\* C24: a failure while classifying one file of a batch does not abort the
\* batch or the scan; the file gets normal, and every other file of the batch
\* gets the result of its own classification: the scan goes through every
\* batch, and the verdict returned for a classified file is the one its own
\* check_file_with_retry produced.
OwnResultPerFile ==
    ScanReturned =>
        /\ Len(scan.prog) = NumBatches
        /\ \A f \in DOMAIN scan.own : f \in DOMAIN scan.res /\ scan.res[f] = scan.own[f]

\* C25: every entry of a scan result has the verdict malicious or normal,
\* whatever the classifier replied.
VerdictMaliciousOrNormal ==
    \A f \in DOMAIN scan.res : scan.res[f] \in {"malicious", "normal"}

\* the last n elements of a sequence
LastOf(seq, n) == SubSeq(seq, IF Len(seq) > n THEN Len(seq) - n + 1 ELSE 1, Len(seq))

CallbackWhenDue ==
    [][start.pc = "readline" /\ start'.since = start.since + 1
          /\ (start'.since >= 3 \/ start.elapsed > update_interval)
       => start'.pc = "callback"]_vars

\* C28: waiting for a line of the child's output suspends the monitor task
\* only: while the monitor waits on a child that is alive and prints nothing,
\* another task - a stop request - can still take its step.
QuietChildLeavesLoopFree ==
    (start.pc = "readline" /\ Polls(alive, 1) /\ Unread(start) = << >>)
        => ENABLED StopRequest

RunsNow ==
    /\ 1 \in DOMAIN running_bots
    /\ 1 \in DOMAIN running_bots[1]
    /\ running_bots[1][1].process \in alive

\* C30: the watcher loop ends once is_bot_running(user, slot) is false at the
\* start of an iteration and only then, the condition is evaluated before
\* every iteration, and no step of the watcher stops, kills or unregisters a
\* process: the registry and the processes are unchanged by it.
WatcherOnlyObserves ==
    [][WatchStep =>
          /\ UNCHANGED <<running_bots, alive, user_projects, user_sessions>>
          /\ stopper'.pc \in {"sleep", "ended"} => (stopper'.pc = "ended" <=> ~RunsNow)
          /\ stopper'.pc \in {"scan", "fetch", "send"} =>
                stopper.pc \in {"sleep", "scan", "fetch"}
          /\ stopper.pc \in {"created", "send"} => stopper'.pc \in {"sleep", "ended"}]_vars

\* a watcher that ended after a poll, with the entry of the exited process
\* still in the registry
WatcherEndedEntryKept ==
    /\ stopper.pc = "ended"
    /\ stopper.known_files # {}
    /\ 1 \in DOMAIN running_bots
    /\ ~RunsNow

\* C31: in each poll the watcher sends to the scan the files that are there
\* now and were not at the previous poll, and nothing else; a file it deletes
\* was classified malicious in this poll and lies inside the slot directory;
\* a file outside the directory is never deleted.
DeletesOnlyFlaggedNewFiles ==
    [][WatchStep =>
          /\ stopper.pc = "sleep" /\ stopper'.pc = "scan" =>
                stopper'.new_files = stopper.dir \ stopper.known_files
          /\ \A f \in stopper.dir \ stopper'.dir :
                f \in stopper'.malicious /\ f \in stopper.new_files
          /\ stopper'.outside = stopper.outside]_vars

\* C32: an upload flow never wipes or writes a slot directory while a process
\* runs in that slot, and two upload flows never work on the same slot
\* directory at the same time: process_zip_upload is not entered for a slot
\* with a running process, no process runs in the slot of a flow that is
\* between its download and its selector, and no two such flows have the
\* same user and slot.
UploadFlowOwnsDirectory ==
    /\ [][\A u \in Clients :
            OnMessage(u) =>
               ~is_bot_running(running_bots, alive, u, user_projects[u].slot)]_vars
    /\ [](\A t \in Suspended :
            t.pc = "zip" =>
               /\ ~is_bot_running(running_bots, alive, t.u, t.s)
               /\ CopiesIn(t, tasks) = 1)

\* C33: every upload session is eventually destroyed: a user who is uploading
\* is later no longer uploading, whatever the outcome of the upload flow.
EveryUploadSessionEnds ==
    \A u \in Clients :
       is_user_uploading(user_projects, u) ~> ~is_user_uploading(user_projects, u)

\* the registry references process pid under some (user, slot)
Registered(rb, pid) ==
    \E u \in DOMAIN rb : \E s \in SlotsOf(rb, u) : rb[u][s].process = pid

\* C34: a run request (from a selector or from the develop command) never
\* leaves a live child process that the registry no longer references: every
\* live process registered before the step is registered after it, and so is
\* the process the step has spawned.
RunKeepsLiveRegistered ==
    [][(RunStep \/ \E t \in Suspended, p \in StartFlags : DevRun(t, p)) =>
          \A pid \in alive' :
             (pid \notin alive \/ Registered(running_bots, pid))
             => Registered(running_bots', pid)]_vars

\* the files the coroutine t is about to run have not all passed scan_files:
\* develop_command writes the generated files and reaches run_generated_bot
\* without a scan, and a process_zip_upload of the same slot that is still
\* suspended has wiped the directory and is downloading, extracting or
\* scanning the new files
Unscanned(t, ts) ==
    \/ t.pc = "dev_run"
    \/ \E z \in BagToSet(ts) : z.pc = "zip" /\ z.u = t.u /\ z.s = t.s

\* C35: no process is spawned from a slot directory whose current files have
\* not all passed a security scan, neither by the develop path nor by a run
\* request of an earlier selector during a newer upload into the slot.
NeverSpawnsUnscanned ==
    [][\A t \in Suspended, p \in StartFlags :
          (RunStart(t, p) \/ DevRun(t, p)) /\ spawned' # spawned
          => ~Unscanned(t, tasks)]_vars

\* C36: at most one watcher loop is active per (user, slot): the watcher
\* created for process 1 does not go on once that process has exited or was
\* stopped, also when a new process, with its own watcher, was registered in
\* the slot before the check.
OldWatcherEnds ==
    [][WatchStep /\ ~Polls(alive, 1) => stopper'.pc # "sleep"]_vars

\* C37: in SecurityChecker.scan_files the result recorded for a code file is
\* the result of classifying that file, at every point of the scan, also in a
\* batch with a listed code file that is not a regular file.
RecordedIsOwnClassification ==
    scan.impl = "checker" =>
        \A f \in DOMAIN scan.res :
           /\ f \in DOMAIN scan.own => scan.res[f] = scan.own[f]
           /\ (IsCodeFile(scan.files[f]) /\ f \notin DOMAIN scan.own) =>
                 ~IsFile(scan.files[f]) /\ scan.res[f] = "normal"

\* C38: the set of rate-limited models of a SecurityChecker only grows; once
\* every model is in it no step issues a classifier call, and every file whose
\* check starts from then on gets normal.
RateLimitedOnlyGrows ==
    /\ [][scan.impl = "checker" => scan.rl \subseteq scan'.rl]_vars
    /\ [][(scan.impl = "checker" /\ scan.rl = CheckerModels) =>
            /\ \A f \in DOMAIN scan'.m : f \in DOMAIN scan.m /\ scan'.m[f] = scan.m[f]
            /\ scan'.called = scan.called
            /\ \A f \in DOMAIN scan'.own :
                  f \notin scan.called => scan'.own[f] = "normal"]_vars

\* a scan by a SecurityChecker whose models were all rate limited by earlier
\* scans: it has returned without a call, its code file reported normal
LaterScanWithoutCalls ==
    /\ scan.impl = "checker" /\ scan.pc = "returned"
    /\ scan.rl = CheckerModels /\ scan.called = {}
    /\ \E f \in DOMAIN scan.own : scan.files[f] = "code" /\ scan.res[f] = "normal"

\* C39: a slot with an entry in running_bots, also of a process that has
\* exited, is not granted by start_upload_session; the per-user count writes
\* nothing; and an entry leaves the registry only in a step of
\* get_running_bots_count or of stop_bot.
ExitedEntryKeepsSlot ==
    [][\A u \in Clients : \A s \in SlotsOf(running_bots, u) :
          /\ (\E loc \in Locations : CallStart(u, loc)) => ~(last'.ok /\ last'.s = s)
          /\ CallCountFor(u) => running_bots' = running_bots
          /\ s \notin SlotsOf(running_bots', u) =>
                \/ CallCount
                \/ \E slot \in HeldSlots(u) \cup {None} :
                      \E o \in [Targets(running_bots, alive, u, slot) -> StopOutcomes] :
                         CallStop(u, slot, o)]_vars

\* start_upload_session has passed over the slot of an exited process that is
\* still registered and granted a higher one
ExitedSlotPassedOver ==
    /\ last.op = "start_upload_session" /\ last.ok
    /\ \E s \in SlotsOf(running_bots, last.u) :
          /\ ~Polls(alive, running_bots[last.u][s].process)
          /\ s < last.s

\* C40: user_sessions and user_projects always have the same user keys, and
\* for each of these users the same slot and the same upload location.
SessionsMirrorProjects ==
    /\ DOMAIN user_sessions = DOMAIN user_projects
    /\ \A u \in DOMAIN user_sessions :
          /\ user_sessions[u].slot = user_projects[u].slot
          /\ user_sessions[u].upload_location = user_projects[u].upload_location

\* a session started again from another place while slot 1 is taken: both
\* dicts hold the new slot and the new place
SessionRestartedElsewhere ==
    /\ last.op = "start_upload_session" /\ last.ok /\ Len(last.bres) > 1
    /\ user_projects[last.u].slot > 1
    /\ user_sessions[last.u].upload_location = "dm"

====
